---- MODULE Spec2Model ----
(***************************************************************************)
(* DealFlow: the persistence adapter (src/services/history.ts) with the    *)
(* parts of the identity adapter (src/services/firebase.ts) and of the     *)
(* pages that decide which backend it talks to.                            *)
(*                                                                         *)
(* JavaScript values are tagged records, so that "undefined", null, an     *)
(* absent key, an empty object and an empty array are all different:       *)
(*   [t |-> "undefined"]   [t |-> "null"]                                  *)
(*   [t |-> "string", s |-> ..]   [t |-> "number", n |-> ..]               *)
(*   [t |-> "object", f |-> key -> value]   [t |-> "array", e |-> <<..>>]  *)
(***************************************************************************)
EXTENDS Integers, Sequences, FiniteSets, TLC

VARIABLES
  authHandle,    \* firebase.ts:24,39   `auth` was initialised
  db,            \* firebase.ts:25,42   `db` was initialised
  currentUser,   \* auth.currentUser (a uid, or NoUser)
  localStorage,  \* window.localStorage: key -> parsed JSON value, or Null
  cloud,         \* Firestore: uid -> collection -> document id -> document
  clock,         \* Date.now()
  nextUuid,      \* number of identifiers crypto.randomUUID()/addDoc handed out
  nSaves,        \* number of Save calls made so far (bounded by MaxSaves)
  savedLog,      \* ghost: per slot, the saves mirrored since it was last cleared, oldest first
  last,          \* ghost: what the most recent adapter call did and returned
  pending,       \* the Save calls whose cloud write is still awaited
  chat,          \* Chat.tsx: the state of the chat view, its effect and its timer
  home,          \* UserProfile.tsx (Home): loading, error, result, and the analysis call
  identity,      \* firebase.ts: mockAuthObserver, the hosted listeners, the subscribers
  profiles       \* firebase.ts: the users collection and the createUserDocument runs

vars == <<authHandle, db, currentUser, localStorage, cloud, clock, nextUuid,
          nSaves, savedLog, last, pending, chat, home, identity, profiles>>

(***************************** JavaScript values ***************************)

Undef == [t |-> "undefined"]
Null == [t |-> "null"]
Str(s) == [t |-> "string", s |-> s]
Num(n) == [t |-> "number", n |-> n]
Obj(f) == [t |-> "object", f |-> f]
Arr(e) == [t |-> "array", e |-> e]

EmptyMap == [k \in {} |-> Null]

\* obj.key: an absent key reads as undefined
Get(o, k) == IF o.t = "object" /\ k \in DOMAIN o.f THEN o.f[k] ELSE Undef

\* {...f, [k]: v}
Put(f, k, v) == [x \in (DOMAIN f) \cup {k} |-> IF x = k THEN v ELSE f[x]]

\* JavaScript truthiness, as used by `a || b`, `!a` and `if (a)`
Truthy(v) ==
  CASE v.t = "undefined" -> FALSE
    [] v.t = "null" -> FALSE
    [] v.t = "string" -> v.s # ""
    [] v.t = "number" -> v.n # 0
    [] OTHER -> TRUE

\* first n elements: Array.prototype.slice(0, n)
Slice0(s, n) == SubSeq(s, 1, IF Len(s) < n THEN Len(s) ELSE n)

\* some value inside v, at any depth, is undefined
RECURSIVE HasUndefined(_)
HasUndefined(v) ==
  CASE v.t = "undefined" -> TRUE
    [] v.t = "array" -> \E i \in DOMAIN v.e : HasUndefined(v.e[i])
    [] v.t = "object" -> \E k \in DOMAIN v.f : HasUndefined(v.f[k])
    [] OTHER -> FALSE

(******************** src/services/history.ts: helpers *********************)

ANALYSIS_KEY == "dealflow_history"
CHAT_KEY == "dealflow_chats"
TOOLS_KEY == "dealflow_tools"
DEMO_KEY == "demo_auth_active"

StorageKeys == {ANALYSIS_KEY, CHAT_KEY, TOOLS_KEY, DEMO_KEY}
HistoryKeys == {ANALYSIS_KEY, CHAT_KEY, TOOLS_KEY}
Collections == {"analyses", "chats", "generations"}

\* the local slot that mirrors a cloud collection
KeyOf(collectionName) ==
  CASE collectionName = "analyses" -> ANALYSIS_KEY
    [] collectionName = "chats" -> CHAT_KEY
    [] OTHER -> TOOLS_KEY

NoUser == "(none)"
Users == {"u1", "u2"}

AnalysisCap == 10
ToolsCap == 10
ChatCap == 5
LimitCount == 20

\* isRealBackendAvailable without its third conjunct
isRealBackendAvailable_IgnoresDemoFlag ==
  db /\ currentUser # NoUser

\* !localStorage.getItem('demo_auth_active'): any non-empty string counts
isRealBackendAvailable ==
  db /\ currentUser # NoUser /\ ~Truthy(localStorage[DEMO_KEY])

RECURSIVE sanitizeForFirestore(_)
sanitizeForFirestore(obj) ==
  CASE obj.t = "array" ->
         Arr([i \in DOMAIN obj.e |-> sanitizeForFirestore(obj.e[i])])
    [] obj.t = "object" ->
         Obj([k \in {x \in DOMAIN obj.f : obj.f[x] # Undef}
                |-> sanitizeForFirestore(obj.f[k])])
    [] OTHER -> obj

\* a store that hands back the very value it was given
JsonRoundTrip_KeepsUndefined(v) == v

\* JSON.parse(JSON.stringify(v)) for a value v that is not itself undefined:
\* an object drops the keys whose value is undefined, an array turns an
\* undefined element into null.
RECURSIVE JsonRoundTrip(_)
JsonRoundTrip(v) ==
  CASE v.t = "array" ->
         Arr([i \in DOMAIN v.e |->
                IF v.e[i] = Undef THEN Null ELSE JsonRoundTrip(v.e[i])])
    [] v.t = "object" ->
         Obj([k \in {x \in DOMAIN v.f : v.f[x] # Undef} |-> JsonRoundTrip(v.f[k])])
    [] OTHER -> v

\* JSON.parse(localStorage.getItem(key) || '[]')
ParsedList(key) ==
  IF Truthy(localStorage[key]) THEN localStorage[key].e ELSE <<>>

\* localStorage.setItem(key, JSON.stringify(updated))
SetItemJson(key, updated) ==
  [localStorage EXCEPT ![key] = JsonRoundTrip(Arr(updated))]

Uuid(n) == "uuid-" \o ToString(n)

(************************* Firestore, as it is called **********************)

CloudDocs(uid, collectionName) == cloud[uid][collectionName]

\* Firestore refuses a document that holds undefined anywhere
FirestoreAccepts(data) == ~HasUndefined(data)

\* one cloud call the adapter issued
CloudOp(type, collectionName, id, payload) ==
  [type |-> type, uid |-> currentUser, coll |-> collectionName,
   id |-> id, payload |-> payload]

\* a write without the try/catch: the failure reaches the caller
saveToDatabaseThrows_NoCatch(failed) == failed

\* the try/catch of saveToDatabase: a failed write does not reach the caller
saveToDatabaseThrows(failed) == FALSE

\* saveToDatabase(collectionName, data); `writeOk`: the network and the
\* security rules let the write through.
saveToDatabase(collectionName, data, writeOk) ==
  IF isRealBackendAvailable /\ currentUser # NoUser
  THEN LET cleanData == sanitizeForFirestore(data)
           hasId == Truthy(Get(cleanData, "id"))
           docId == IF hasId THEN Get(cleanData, "id").s ELSE Uuid(nextUuid)
           done == writeOk /\ FirestoreAccepts(cleanData)
       IN [cloud |-> IF done
                     THEN [cloud EXCEPT ![currentUser][collectionName] =
                                            Put(@, docId, cleanData)]
                     ELSE cloud,
           issued |-> {CloudOp(IF hasId THEN "setDoc" ELSE "addDoc",
                               collectionName, docId, cleanData)},
           failed |-> ~done,
           threw |-> saveToDatabaseThrows(~done),
           uuids |-> IF hasId THEN 0 ELSE 1]
  ELSE [cloud |-> cloud, issued |-> {}, failed |-> FALSE, threw |-> FALSE,
        uuids |-> 0]

\* the documents a query ordered by `timestamp` can see, most recent first;
\* documents with equal timestamps come in either order
TimestampOf(docs, id) == Get(docs[id], "timestamp").n

RECURSIVE OrderedDesc(_, _)
OrderedDesc(docs, ids) ==
  IF ids = {} THEN {<<>>}
  ELSE LET tops == {i \in ids : \A j \in ids : TimestampOf(docs, j) <= TimestampOf(docs, i)}
       IN UNION {{<<i>> \o rest : rest \in OrderedDesc(docs, ids \ {i})} : i \in tops}

\* query(collection, orderBy('timestamp', 'desc'), limit(limitCount)): the
\* possible snapshots, as sequences of document ids
QuerySnapshots(docs, limitCount) ==
  {Slice0(o, limitCount) :
     o \in OrderedDesc(docs, {i \in DOMAIN docs : Get(docs[i], "timestamp").t = "number"})}

\* { id: doc.id, ...doc.data() }
DocWithId(id, data) ==
  Obj([k \in (DOMAIN data.f) \cup {"id"} |->
         IF k \in DOMAIN data.f THEN data.f[k] ELSE Str(id)])

\* the try/catch of getFromDatabase: a failed read does not reach the caller
getFromDatabaseThrows(failed) == FALSE

\* how getDocs can end; without a cloud call there is nothing to fail
ReadOutcomes ==
  IF isRealBackendAvailable THEN {"ok", "failed-precondition", "unavailable"} ELSE {"ok"}

\* whether the cloud write gets through
WriteOutcomes == IF isRealBackendAvailable THEN BOOLEAN ELSE {TRUE}

\* getFromDatabase(collectionName, limitCount = 20); `outcome`: how getDocs
\* ends, `snapshot`: the ids it returns when it succeeds
getFromDatabase(collectionName, limitCount, outcome, snapshot) ==
  IF isRealBackendAvailable /\ currentUser # NoUser
  THEN LET docs == CloudDocs(currentUser, collectionName)
       IN [data |-> IF outcome = "ok"
                    THEN [i \in DOMAIN snapshot |-> DocWithId(snapshot[i], docs[snapshot[i]])]
                    ELSE <<>>,
           issued |-> {CloudOp("getDocs", collectionName, "", Null)},
           failed |-> outcome # "ok",
           logged |-> outcome \notin {"ok", "failed-precondition"},
           threw |-> getFromDatabaseThrows(outcome # "ok")]
  ELSE [data |-> <<>>, issued |-> {}, failed |-> FALSE, logged |-> FALSE,
        threw |-> FALSE]

(******************************* observations ******************************)

NoLast ==
  [op |-> "none", coll |-> "", arg |-> Null, entry |-> Null, mode |-> FALSE,
   issued |-> {}, cloudFailed |-> FALSE, raised |-> FALSE, logged |-> FALSE,
   result |-> Null, substitute |-> FALSE, called |-> {}]

\* `call`: the number of the Save call, in the order of issue; `wrote`: its
\* cloud write went through
Logged(key, arg, entry, call, wrote) ==
  [savedLog EXCEPT ![key] = Append(@, [arg |-> arg, entry |-> entry,
                                       call |-> call, wrote |-> wrote])]

(********************************** Save ***********************************)

\* { ...result, id: result.id || crypto.randomUUID(),
\*   timestamp: result.timestamp || Date.now() }
NewEntry(result, now) ==
  Obj(Put(Put(result.f, "id",
              IF Truthy(Get(result, "id")) THEN Get(result, "id")
              ELSE Str(Uuid(nextUuid))),
          "timestamp",
          IF Truthy(Get(result, "timestamp")) THEN Get(result, "timestamp")
          ELSE Num(now)))

\* the prepend without the slice
AnalysisUpdated_NoCap(newEntry, currentLocal) == <<newEntry>> \o currentLocal

\* [newEntry, ...currentLocal].slice(0, 10)
AnalysisUpdated(newEntry, currentLocal) ==
  Slice0(<<newEntry>> \o currentLocal, AnalysisCap)

\* the index currentLocal.findIndex(s => s.id === session.id) finds, 0 for none
FindIndex(currentLocal, session) ==
  LET hits == {i \in DOMAIN currentLocal :
                 Get(currentLocal[i], "id") = Get(session, "id")}
  IN IF hits = {} THEN 0 ELSE CHOOSE i \in hits : \A j \in hits : i <= j

\* a save that never looks for the id: prepend and keep 5
ChatUpdated_AlwaysPrepends(session, currentLocal) ==
  Slice0(<<session>> \o currentLocal, ChatCap)

\* update the session in place if its id is there, else prepend and keep 5
ChatUpdated(session, currentLocal) ==
  LET existingIndex == FindIndex(currentLocal, session)
  IN IF existingIndex >= 1
     THEN [currentLocal EXCEPT ![existingIndex] = session]
     ELSE Slice0(<<session>> \o currentLocal, ChatCap)

\* [gen, ...currentLocal].slice(0, 10)
ToolsUpdated(gen, currentLocal) ==
  Slice0(<<gen>> \o currentLocal, ToolsCap)

\* What a save leaves behind: the cloud write, then (unless saveToDatabase
\* threw) the local mirror.
SaveEffects(collectionName, arg, entry, updated, r, dt) ==
  /\ nSaves' = nSaves + 1
  /\ clock' = clock + dt
  /\ cloud' = r.cloud
  /\ nextUuid' = nextUuid + r.uuids
                 + (IF Get(entry, "id") = Str(Uuid(nextUuid)) THEN 1 ELSE 0)
  /\ localStorage' = IF r.threw THEN localStorage
                     ELSE SetItemJson(KeyOf(collectionName), updated)
  /\ savedLog' = IF r.threw THEN savedLog
                 ELSE Logged(KeyOf(collectionName), arg, entry, nSaves + 1,
                             r.issued # {} /\ ~r.failed)
  /\ last' = [NoLast EXCEPT !.op = "save", !.coll = collectionName, !.arg = arg,
                            !.entry = entry, !.mode = isRealBackendAvailable,
                            !.issued = r.issued, !.cloudFailed = r.failed,
                            !.raised = r.threw]
  /\ UNCHANGED <<authHandle, db, currentUser, pending, identity, profiles>>

\* saveToHistory(result), called dt ms after the previous call
saveToHistory(result, dt, writeOk) ==
  LET newEntry == NewEntry(result, clock + dt)
      r == saveToDatabase("analyses", newEntry, writeOk)
  IN SaveEffects("analyses", result, newEntry,
                 AnalysisUpdated(newEntry, ParsedList(ANALYSIS_KEY)), r, dt)

\* saveChatSession(session)
saveChatSession(session, dt, writeOk) ==
  LET r == saveToDatabase("chats", session, writeOk)
  IN SaveEffects("chats", session, session,
                 ChatUpdated(session, ParsedList(CHAT_KEY)), r, dt)

\* saveGeneration(gen)
saveGeneration(gen, dt, writeOk) ==
  LET r == saveToDatabase("generations", gen, writeOk)
  IN SaveEffects("generations", gen, gen,
                 ToolsUpdated(gen, ParsedList(TOOLS_KEY)), r, dt)

(********************************** Load ***********************************)

\* a Load that answers from the local slot whatever the cloud returned
CloudWins_Never(dbData, stored) == stored

\* if (dbData.length > 0) return dbData; else the local slot, parsed

CloudWins(dbData, stored) == IF Len(dbData) > 0 THEN dbData ELSE stored

LoadEffects(collectionName, q) ==
  /\ last' = [NoLast EXCEPT !.op = "load", !.coll = collectionName,
                            !.mode = isRealBackendAvailable,
                            !.issued = q.issued, !.cloudFailed = q.failed,
                            !.raised = q.threw, !.logged = q.logged,
                            !.arg = Arr(q.data),
                            !.result = IF q.threw THEN Null
                                       ELSE Arr(CloudWins(q.data, ParsedList(KeyOf(collectionName))))]
  /\ UNCHANGED <<authHandle, db, currentUser, localStorage, cloud, clock,
                 nextUuid, nSaves, savedLog, pending, chat, home,
                 identity, profiles>>

\* the snapshots getDocs may return to the current user
SnapshotsOf(collectionName, outcome) ==
  IF isRealBackendAvailable /\ outcome = "ok"
  THEN QuerySnapshots(CloudDocs(currentUser, collectionName), LimitCount)
  ELSE {<<>>}

\* getHistory()
getHistory(outcome) ==
  \E snapshot \in SnapshotsOf("analyses", outcome) :
    LoadEffects("analyses", getFromDatabase("analyses", LimitCount, outcome, snapshot))

\* getChatHistory()
getChatHistory(outcome) ==
  \E snapshot \in SnapshotsOf("chats", outcome) :
    LoadEffects("chats", getFromDatabase("chats", LimitCount, outcome, snapshot))

\* getGenerationHistory()
getGenerationHistory(outcome) ==
  \E snapshot \in SnapshotsOf("generations", outcome) :
    LoadEffects("generations",
                getFromDatabase("generations", LimitCount, outcome, snapshot))

(******************************** ClearAll *********************************)

\* a clearing that forgets the chat slot
clearLocalHistory_KeepsChats ==
  [k \in StorageKeys |-> IF k \in {ANALYSIS_KEY, TOOLS_KEY} THEN Null ELSE localStorage[k]]

\* clearLocalHistory(): removeItem on the three history slots
clearLocalHistory ==
  [k \in StorageKeys |-> IF k \in HistoryKeys THEN Null ELSE localStorage[k]]

ClearOutcomes == {"ok", "list-fails", "delete-fails"}

\* The documents of one collection that survive the loop body of
\* clearAllUserData: none when listing and every delete succeed, all when
\* the listing fails, `kept` (not empty) when some delete fails.
Survivors(docs, outcome, kept) ==
  CASE outcome = "ok" -> {}
    [] outcome = "list-fails" -> DOMAIN docs
    [] OTHER -> IF kept = {} THEN {} ELSE kept

Restrict(docs, ids) == [i \in ids |-> docs[i]]

\* the calls one loop body issues: the listing, and a delete per listed document
ClearOps(collectionName, docs, outcome) ==
  {CloudOp("getDocs", collectionName, "", Null)}
  \cup (IF outcome = "list-fails" THEN {}
        ELSE {CloudOp("deleteDoc", collectionName, i, Null) : i \in DOMAIN docs})

\* the collections the loop visits before this one
Earlier(collectionName) ==
  CASE collectionName = "analyses" -> {}
    [] collectionName = "chats" -> {"analyses"}
    [] OTHER -> {"analyses", "chats"}

\* a loop with the try/catch around it: the first failing round ends it
RoundRuns_UntilFirstFailure(collectionName, outcome) ==
  \A c \in Earlier(collectionName) : outcome[c] = "ok"

\* the try/catch sits inside the loop body: every round runs
RoundRuns(collectionName, outcome) == TRUE

\* clearAllUserData(); outcome and kept say, per collection, how its round ends
clearAllUserData(outcome, kept) ==
  /\ localStorage' = clearLocalHistory
  /\ IF isRealBackendAvailable /\ currentUser # NoUser
     THEN /\ cloud' = [cloud EXCEPT ![currentUser] =
                         [c \in Collections |->
                            IF RoundRuns(c, outcome)
                            THEN Restrict(cloud[currentUser][c],
                                          Survivors(cloud[currentUser][c], outcome[c], kept[c]))
                            ELSE cloud[currentUser][c]]]
          /\ last' = [NoLast EXCEPT !.op = "clear", !.mode = TRUE,
                        !.issued = UNION {ClearOps(c, cloud[currentUser][c], outcome[c]) :
                                            c \in {x \in Collections : RoundRuns(x, outcome)}},
                        !.cloudFailed = \E c \in Collections : outcome[c] # "ok",
                        !.logged = \E c \in Collections : outcome[c] # "ok",
                        !.raised = \E c \in Collections : ~RoundRuns(c, outcome),
                        !.result = [t |-> "rounds", f |-> outcome]]
     ELSE /\ cloud' = cloud
          /\ last' = [NoLast EXCEPT !.op = "clear"]
  /\ savedLog' = [k \in HistoryKeys |-> <<>>]
  /\ UNCHANGED <<authHandle, db, currentUser, clock, nextUuid, nSaves, pending,
                 chat, home, identity, profiles>>

\* the ways a round of clearAllUserData can end in the current state
ClearChoices ==
  IF isRealBackendAvailable
  THEN {ch \in [outcome : [Collections -> ClearOutcomes],
                kept : [Collections -> SUBSET UNION {DOMAIN cloud[currentUser][c] : c \in Collections}]] :
          \A c \in Collections :
            /\ ch.kept[c] \subseteq DOMAIN cloud[currentUser][c]
            /\ (ch.outcome[c] = "delete-fails") = (ch.kept[c] # {})}
  ELSE {[outcome |-> [c \in Collections |-> "ok"], kept |-> [c \in Collections |-> {}]]}

(************************ src/services/firebase.ts *************************)

\* FIREBASE_CONFIG.apiKey is set and is no placeholder
isConfigValid == TRUE

isDemoActive == localStorage[DEMO_KEY] = Str("true")

\* a guard that does not look at the demo flag
SubstitutePath_IgnoresDemoFlag == ~isConfigValid \/ ~authHandle

\* the guard of every substitute path: !isConfigValid || !auth || isDemoActive()
SubstitutePath == ~isConfigValid \/ ~authHandle \/ isDemoActive

\* MOCK_USER.uid
MOCK_USER == "demo-user-123"

MaxSubscribers == 2
Subscribers == 1 .. MaxSubscribers

\* a callback that may be passed to subscribeToAuthChanges: where it stands
\* (none, active, stopped by its unsubscribe function, gone with the page),
\* the path its subscription took, and the users it was invoked with
NoSub == [status |-> "none", path |-> "", got |-> <<>>]

\* let mockAuthObserver = null (0: null, else the callback), and the
\* listeners registered with onAuthStateChanged
NoIdentity ==
  [mockAuthObserver |-> 0, listeners |-> {}, subs |-> [i \in Subscribers |-> NoSub]]

\* the users collection, the createUserDocument runs that wait for the
\* store, and navigator.onLine
NoProfiles == [docs |-> [u \in Users |-> Null], runs |-> {}, online |-> TRUE]

\* user.displayName, as words of characters ("ada  l k"), null for u2
DisplayName(u) ==
  IF u = "u1" THEN <<<<"a", "d", "a">>, <<>>, <<"l">>, <<"k">>>> ELSE Null

\* toUpperCase on the characters in use
Upper(c) == CASE c = "a" -> "A" [] c = "l" -> "L" [] c = "k" -> "K" [] OTHER -> c

HasFirst(word) == word # <<>>

\* name.split(' ').map(word => word[0]).join('').toUpperCase().slice(0, 2),
\* "U" without a name; the first character of an empty word is undefined and
\* joins as nothing
getInitials(name) ==
  IF name = Null THEN "U"
  ELSE LET words == SelectSeq(name, HasFirst)
           chars == Slice0([i \in DOMAIN words |-> Upper(words[i][1])], 2)
       IN IF Len(chars) = 0 THEN ""
          ELSE IF Len(chars) = 1 THEN chars[1] ELSE chars[1] \o chars[2]

\* the document of the first setDoc
CreatedDoc(u, now) ==
  [uid |-> u, displayName |-> DisplayName(u),
   initials |-> getInitials(DisplayName(u)), createdAt |-> now, lastLogin |-> now]

\* setDoc(userRef, { lastLogin }, { merge: true })
MergedDoc(doc, now) ==
  IF doc = Null THEN [lastLogin |-> now] ELSE [doc EXCEPT !.lastLogin = now]

\* the guards of createUserDocument: online, a valid configuration, a store
\* handle, no demo flag
RunsCreateUserDocument ==
  profiles.online /\ isConfigValid /\ db /\ ~isDemoActive

\* what a run decides when its getDoc is answered: create or touch
WriteOf(docs, u, now) ==
  IF docs[u] = Null THEN [kind |-> "create", doc |-> CreatedDoc(u, now)]
  ELSE [kind |-> "merge", doc |-> [lastLogin |-> now]]

\* the collection after the setDoc of a run went through
DocsAfter(docs, u, write) ==
  [docs EXCEPT ![u] = IF write.kind = "create" THEN write.doc
                      ELSE MergedDoc(@, write.doc.lastLogin)]

\* createUserDocument(user) up to its await, called by `callers` (0: a
\* sign-in operation, i: the listener of callback i): past the guards each
\* call waits for its getDoc
createUserDocument(u, callers) ==
  IF RunsCreateUserDocument
  THEN [profiles EXCEPT
          !.runs = @ \cup {[uid |-> u, caller |-> c, phase |-> "getDoc",
                            write |-> Null] : c \in callers}]
  ELSE profiles

\* the getDoc of a run is answered (`ok`: with a snapshot; a rejection is
\* caught and ends the run); the run decides and issues its setDoc
getDocAnswers(run, ok) ==
  /\ run \in profiles.runs
  /\ run.phase = "getDoc"
  /\ profiles' =
       [profiles EXCEPT
          !.runs = (@ \ {run}) \cup
                   (IF ok THEN {[run EXCEPT !.phase = "setDoc",
                                            !.write = WriteOf(profiles.docs, run.uid, clock)]}
                    ELSE {})]
  /\ clock' = clock + 1
  /\ last' = [NoLast EXCEPT !.op = "getDoc", !.result = Num(run.caller)]
  /\ UNCHANGED <<authHandle, db, currentUser, localStorage, cloud, nextUuid, nSaves,
                 savedLog, pending, chat, home, identity>>

\* the setDoc of a run is answered (`ok`: the write went through)
setDocAnswers(run, ok) ==
  /\ run \in profiles.runs
  /\ run.phase = "setDoc"
  /\ profiles' =
       [profiles EXCEPT
          !.runs = @ \ {run},
          !.docs = IF ok THEN DocsAfter(@, run.uid, run.write) ELSE @]
  /\ last' = [NoLast EXCEPT !.op = "setDoc", !.result = Num(run.caller)]
  /\ UNCHANGED <<authHandle, db, currentUser, localStorage, cloud, clock, nextUuid,
                 nSaves, savedLog, pending, chat, home, identity>>

\* navigator.onLine changes
connectivityChanges ==
  /\ profiles' = [profiles EXCEPT !.online = ~@]
  /\ last' = [NoLast EXCEPT !.op = "online"]
  /\ UNCHANGED <<authHandle, db, currentUser, localStorage, cloud, clock, nextUuid,
                 nSaves, savedLog, pending, chat, home, identity>>

\* mockAuthObserver(user), if there is one
NotifiedMock(id, user) ==
  IF id.mockAuthObserver = 0 THEN id
  ELSE [id EXCEPT !.subs[id.mockAuthObserver].got = Append(@, user)]

\* the listeners of onAuthStateChanged are called with the user
NotifiedHosted(id, user) ==
  [id EXCEPT !.subs = [i \in Subscribers |->
                         IF i \in id.listeners
                         THEN [@[i] EXCEPT !.got = Append(@, user)] ELSE @[i]]]

\* window.location.reload(): the page and every callback of it are gone
Reloaded(id) ==
  [mockAuthObserver |-> 0, listeners |-> {},
   subs |-> [i \in Subscribers |->
               IF id.subs[i].status = "active"
               THEN [id.subs[i] EXCEPT !.status = "gone"] ELSE id.subs[i]]]

AuthEffects ==
  UNCHANGED <<authHandle, db, cloud, clock, nextUuid, nSaves, savedLog,
              pending, chat, home>>

\* what an operation of the module leaves for the observer of the model:
\* its name, the branch it took, the hosted functions it called, what it
\* returned (Undef: nothing) and whether it threw
Observed(name, substitute, called, result, raised) ==
  last' = [NoLast EXCEPT !.op = name, !.substitute = substitute,
                         !.called = called, !.result = result, !.raised = raised]

\* the same, with what the hosted function ended with
ObservedWith(name, outcome, called, result, raised) ==
  last' = [NoLast EXCEPT !.op = name, !.arg = Str(outcome), !.called = called,
                         !.result = result, !.raised = raised]

\* the substitute path of the three sign-in operations: after the simulated
\* latency, set the flag, call the observer, return MOCK_USER
substituteSignIn(name) ==
  /\ localStorage' = [localStorage EXCEPT ![DEMO_KEY] = Str("true")]
  /\ identity' = NotifiedMock(identity, MOCK_USER)
  /\ UNCHANGED <<currentUser, profiles>>
  /\ Observed(name, TRUE, {}, Str(MOCK_USER), FALSE)

\* the hosted path of a sign-in operation that calls `fn`: on success the
\* session changes, the listeners run (each calls createUserDocument and
\* then its callback), and the operation calls createUserDocument itself
hostedSignIn(name, fn, u, ok) ==
  /\ localStorage' = localStorage
  /\ IF ok
     THEN /\ currentUser' = u
          /\ identity' = NotifiedHosted(identity, u)
          /\ profiles' = createUserDocument(u, identity.listeners \cup {0})
     ELSE UNCHANGED <<currentUser, identity, profiles>>
  /\ Observed(name, FALSE, {fn}, IF ok THEN Str(u) ELSE Undef, ~ok)

\* registerWithEmail(email, pass); `ok`: the hosted service creates the account
registerWithEmail(u, ok) ==
  /\ IF SubstitutePath THEN substituteSignIn("registerWithEmail")
     ELSE hostedSignIn("registerWithEmail", "createUserWithEmailAndPassword", u, ok)
  /\ AuthEffects

\* loginWithEmail(email, pass) for the account of user u; `ok`: the hosted
\* service accepts the credentials
loginWithEmail(u, ok) ==
  /\ IF SubstitutePath THEN substituteSignIn("loginWithEmail")
     ELSE hostedSignIn("loginWithEmail", "signInWithEmailAndPassword", u, ok)
  /\ AuthEffects

\* resetPassword(email); `ok`: the hosted service sends the mail
resetPassword(ok) ==
  /\ IF SubstitutePath
     THEN Observed("resetPassword", TRUE, {}, Undef, FALSE)
     ELSE Observed("resetPassword", FALSE, {"sendPasswordResetEmail"}, Undef, ~ok)
  /\ UNCHANGED <<currentUser, localStorage, identity, profiles>>
  /\ AuthEffects

\* a fallback for one code only
DemoModeCodes_OnlyDomain == {"auth/unauthorized-domain"}

\* the codes on which signInWithGoogle switches to demo mode
DemoModeCodes ==
  {"auth/unauthorized-domain", "auth/operation-not-allowed", "auth/api-key-not-valid"}

\* what signInWithPopup can end with: success, or an error with its code
\* ("": an error without code)
PopupOutcomes ==
  {"ok", "auth/unauthorized-domain", "auth/operation-not-allowed",
   "auth/api-key-not-valid", "auth/popup-closed-by-user", ""}

\* signInWithGoogle(), the popup ending with `outcome` for the account of u
signInWithGoogle(u, outcome) ==
  /\ IF isDemoActive
     THEN /\ identity' = NotifiedMock(identity, MOCK_USER)
          /\ UNCHANGED <<currentUser, localStorage, profiles>>
          /\ Observed("signInWithGoogle", TRUE, {}, Str(MOCK_USER), FALSE)
     ELSE IF ~isConfigValid \/ ~authHandle
     THEN substituteSignIn("signInWithGoogle")
     ELSE IF outcome = "ok"
     THEN hostedSignIn("signInWithGoogle", "signInWithPopup", u, TRUE)
     ELSE IF outcome \in DemoModeCodes
     THEN /\ localStorage' = [localStorage EXCEPT ![DEMO_KEY] = Str("true")]
          /\ identity' = NotifiedMock(identity, MOCK_USER)
          /\ UNCHANGED <<currentUser, profiles>>
          /\ ObservedWith("signInWithGoogle", outcome, {"signInWithPopup"},
                          Str(MOCK_USER), FALSE)
     ELSE /\ UNCHANGED <<currentUser, localStorage, identity, profiles>>
          /\ ObservedWith("signInWithGoogle", outcome, {"signInWithPopup"},
                          Undef, TRUE)
  /\ AuthEffects

\* logout(); `ok`: the hosted sign-out succeeds
logout(ok) ==
  /\ IF SubstitutePath
     THEN /\ localStorage' = [localStorage EXCEPT ![DEMO_KEY] = Null]
          /\ currentUser' = currentUser
          /\ identity' = Reloaded(NotifiedMock(identity, NoUser))
          /\ Observed("logout", TRUE, {}, Undef, FALSE)
     ELSE /\ localStorage' = localStorage
          /\ currentUser' = IF ok THEN NoUser ELSE currentUser
          /\ identity' = IF ok THEN NotifiedHosted(identity, NoUser) ELSE identity
          /\ Observed("logout", FALSE, {"signOut"}, Undef, ~ok)
  /\ UNCHANGED profiles
  /\ AuthEffects

\* a subscription that does not use the session always calls back with null
SubstituteUser_AlwaysNull == NoUser

\* if (isDemo) callback(MOCK_USER) else callback(null)
SubstituteUser == IF isDemoActive THEN MOCK_USER ELSE NoUser

\* subscribeToAuthChanges(callback) for the callback i: the slot is taken
\* over; on the substitute path the callback is called at once, on the
\* hosted path it is registered with onAuthStateChanged, which calls a new
\* listener with the current user before it passes on any later change
subscribeToAuthChanges(i) ==
  /\ identity.subs[i].status = "none"
  /\ IF SubstitutePath
     THEN /\ identity' =
               [identity EXCEPT
                  !.mockAuthObserver = i,
                  !.subs[i] = [status |-> "active", path |-> "mock",
                               got |-> <<SubstituteUser>>]]
          /\ profiles' = profiles
     ELSE /\ identity' =
               [identity EXCEPT
                  !.mockAuthObserver = i,
                  !.listeners = @ \cup {i},
                  !.subs[i] = [status |-> "active", path |-> "hosted",
                               got |-> <<currentUser>>]]
          /\ profiles' = IF currentUser = NoUser THEN profiles
                          ELSE createUserDocument(currentUser, {i})
  /\ Observed("subscribeToAuthChanges", SubstitutePath,
              IF SubstitutePath THEN {} ELSE {"onAuthStateChanged"}, Num(i), FALSE)
  /\ UNCHANGED <<currentUser, localStorage>>
  /\ AuthEffects

\* the function subscribeToAuthChanges returned to callback i is called:
\* () => { mockAuthObserver = null } or the unsubscribe of onAuthStateChanged
unsubscribe(i) ==
  /\ identity.subs[i].status = "active"
  /\ identity' =
       IF identity.subs[i].path = "mock"
       THEN [identity EXCEPT !.mockAuthObserver = 0, !.subs[i].status = "stopped"]
       ELSE [identity EXCEPT !.listeners = @ \ {i}, !.subs[i].status = "stopped"]
  /\ Observed("unsubscribe", identity.subs[i].path = "mock", {}, Num(i), FALSE)
  /\ UNCHANGED <<currentUser, localStorage, profiles>>
  /\ AuthEffects

(**************************** src/pages/Login.tsx **************************)

\* handleDemoLogin(): set the flag and reload the page
handleDemoLogin ==
  /\ localStorage' = [localStorage EXCEPT ![DEMO_KEY] = Str("true")]
  /\ currentUser' = currentUser
  /\ identity' = Reloaded(identity)
  /\ Observed("handleDemoLogin", TRUE, {}, Undef, FALSE)
  /\ UNCHANGED profiles
  /\ AuthEffects

(********************************* inputs **********************************)

MaxSaves == 2

\* the time that may pass between two calls
Ticks == {1}

\* AnalysisResult records: as the home page saves them (with an id and a
\* timestamp) and as analyzeProductImage returns them (without)
AnalysisInputs(now) ==
  { Obj([id |-> Str("a"), timestamp |-> Num(now), productName |-> Str("p1")]),
    Obj([id |-> Str("a"), timestamp |-> Num(now), productName |-> Str("p2"),
         negotiationMessageHindi |-> Undef,
         keyFeatures |-> Arr(<<Str("f"), Undef>>)]),
    Obj([productName |-> Str("p1"),
         searchLinks |-> Arr(<<Obj([title |-> Undef, uri |-> Str("u")])>>)]) }

Message(id, role, text) ==
  Obj([id |-> Str(id), role |-> Str(role), text |-> Str(text), timestamp |-> Num(1)])

\* ChatSession records as the autosave effect of the chat page builds them
ChatInputs(now) ==
  { Obj([id |-> Str("s1"), timestamp |-> Num(now), lastMessage |-> Str("q1"),
         title |-> Str("q1"),
         messages |-> Arr(<<Message("1", "model", "hi"),
                            Obj([id |-> Str("2"), role |-> Str("user"),
                                 text |-> Str("q1"), timestamp |-> Num(now),
                                 attachment |-> Undef])>>)]),
    Obj([id |-> Str("s1"), timestamp |-> Num(now), lastMessage |-> Str("r1"),
         title |-> Str("q1"),
         messages |-> Arr(<<Message("1", "model", "hi"), Message("2", "user", "q1"),
                            Message("3", "model", "r1")>>)]) }

\* GenerationHistory records as the studio page builds them
GenerationInputs(now) ==
  { Obj([id |-> Str("g"), timestamp |-> Num(now), prompt |-> Str("p1"),
         aspectRatio |-> Undef, mode |-> Str("ui-placeholder"),
         imageData |-> Str("d1"), refImage |-> Undef]),
    Obj([id |-> Str("g"), timestamp |-> Num(now), prompt |-> Str("p2"),
         aspectRatio |-> Str("1:1"), mode |-> Str("standard"),
         imageData |-> Str("d2")]) }

(****************************** specification ******************************)

\* no chat view is mounted
\* effectDue: a render with new messages is committed and its effect has not
\* run yet; timers: the timeouts set and neither fired nor cleared; cleanup:
\* the timeout the cleanup of the latest effect run clears; rendered: the
\* number of messages that run saw
NoChat ==
  [mounted |-> FALSE, sessionId |-> "", messages |-> <<>>, isLoading |-> FALSE,
   effectDue |-> FALSE, timers |-> {}, cleanup |-> 0, nextTimer |-> 1,
   rendered |-> 0, history |-> Null, sent |-> Null,
   input |-> "", attachedImage |-> FALSE, inFlight |-> 0, request |-> Null]

\* the home page as first rendered: useState(false), useState(null), useState(null)
NoHome ==
  [loading |-> FALSE, error |-> Null, result |-> Null, started |-> 0,
   response |-> Null, outcome |-> "none", data |-> Null]

EmptyCloud == [u \in Users |-> [c \in Collections |-> EmptyMap]]

Init ==
  /\ authHandle \in BOOLEAN
  /\ db \in BOOLEAN
  /\ db => authHandle
  /\ currentUser = NoUser
  /\ localStorage = [k \in StorageKeys |-> Null]
  /\ cloud = EmptyCloud
  /\ clock = 1
  /\ nextUuid = 1
  /\ nSaves = 0
  /\ savedLog = [k \in HistoryKeys |-> <<>>]
  /\ last = NoLast
  /\ pending = {}
  /\ chat = NoChat
  /\ home = NoHome
  /\ identity = NoIdentity
  /\ profiles = NoProfiles

SaveAnalysis ==
  /\ nSaves < MaxSaves
  /\ \E dt \in Ticks, writeOk \in WriteOutcomes :
       \E result \in AnalysisInputs(clock + dt) : saveToHistory(result, dt, writeOk)
  /\ UNCHANGED <<chat, home>>

SaveChat ==
  /\ nSaves < MaxSaves
  /\ \E dt \in Ticks, writeOk \in WriteOutcomes :
       \E session \in ChatInputs(clock + dt) : saveChatSession(session, dt, writeOk)
  /\ UNCHANGED <<chat, home>>

SaveTool ==
  /\ nSaves < MaxSaves
  /\ \E dt \in Ticks, writeOk \in WriteOutcomes :
       \E gen \in GenerationInputs(clock + dt) : saveGeneration(gen, dt, writeOk)
  /\ UNCHANGED <<chat, home>>

LoadAnalyses == \E outcome \in ReadOutcomes : getHistory(outcome)

LoadChats == \E outcome \in ReadOutcomes : getChatHistory(outcome)

LoadTools == \E outcome \in ReadOutcomes : getGenerationHistory(outcome)

ClearAll == \E ch \in ClearChoices : clearAllUserData(ch.outcome, ch.kept)

SignIn == \E u \in {"u1"}, ok \in BOOLEAN : loginWithEmail(u, ok)

SignOut == \E ok \in BOOLEAN : logout(ok)

DemoLogin == handleDemoLogin

Next ==
  \/ SaveAnalysis
  \/ SaveChat
  \/ SaveTool
  \/ LoadAnalyses
  \/ LoadChats
  \/ LoadTools
  \/ ClearAll
  \/ SignIn
  \/ SignOut
  \/ DemoLogin

Spec == Init /\ [][Next]_vars

(*********** the local fallback alone: nobody signs in (SpecLocal) **********)

MaxLocalSaves == 3

\* a second chat session, besides the one of ChatInputs
OtherChatInputs(now) ==
  { Obj([id |-> Str("s2"), timestamp |-> Num(now), lastMessage |-> Str("q2"),
         title |-> Str("q2"),
         messages |-> Arr(<<Message("1", "model", "hi"), Message("2", "user", "q2")>>)]) }

LocalSaveAnalysis ==
  /\ nSaves < MaxLocalSaves
  /\ \E dt \in Ticks, writeOk \in WriteOutcomes :
       \E result \in AnalysisInputs(clock + dt) : saveToHistory(result, dt, writeOk)
  /\ UNCHANGED <<chat, home>>

LocalSaveChat ==
  /\ nSaves < MaxLocalSaves
  /\ \E dt \in Ticks, writeOk \in WriteOutcomes :
       \E session \in ChatInputs(clock + dt) \cup OtherChatInputs(clock + dt) :
         saveChatSession(session, dt, writeOk)
  /\ UNCHANGED <<chat, home>>

LocalSaveTool ==
  /\ nSaves < MaxLocalSaves
  /\ \E dt \in Ticks, writeOk \in WriteOutcomes :
       \E gen \in GenerationInputs(clock + dt) : saveGeneration(gen, dt, writeOk)
  /\ UNCHANGED <<chat, home>>

NextLocal ==
  \/ LocalSaveAnalysis
  \/ LocalSaveChat
  \/ LocalSaveTool
  \/ LoadAnalyses
  \/ LoadChats
  \/ LoadTools
  \/ ClearAll

SpecLocal == Init /\ [][NextLocal]_vars

(******** long runs of distinct analyses and generations (SpecRetention) ****)

MaxRetentionSaves == 12

\* a record with an identifier of its own, as crypto.randomUUID() gives the pages
FreshId == "r-" \o ToString(nSaves + 1)

FreshAnalysis(now) ==
  Obj([id |-> Str(FreshId), timestamp |-> Num(now), productName |-> Str("p1")])

FreshGeneration(now) ==
  Obj([id |-> Str(FreshId), timestamp |-> Num(now), prompt |-> Str("p1"),
       mode |-> Str("standard")])

RetainAnalysis ==
  /\ nSaves < MaxRetentionSaves
  /\ \E dt \in Ticks, writeOk \in WriteOutcomes :
       saveToHistory(FreshAnalysis(clock + dt), dt, writeOk)
  /\ UNCHANGED <<chat, home>>

RetainTool ==
  /\ nSaves < MaxRetentionSaves
  /\ \E dt \in Ticks, writeOk \in WriteOutcomes :
       saveGeneration(FreshGeneration(clock + dt), dt, writeOk)
  /\ UNCHANGED <<chat, home>>

NextRetention ==
  \/ RetainAnalysis
  \/ RetainTool

SpecRetention == Init /\ [][NextRetention]_vars

(****************** many chat sessions, saved again (SpecChats) *************)

MaxChatSaves == 7
MaxSessions == 6

SessionId(k) == "s-" \o ToString(k)

\* the sessions saved so far
SessionsSeen ==
  {Get(savedLog[CHAT_KEY][i].entry, "id") : i \in DOMAIN savedLog[CHAT_KEY]}

\* a chat view saves its session as it stands now: a session seen before, or
\* the next new one
SessionInputs(now) ==
  { Obj([id |-> Str(SessionId(k)), timestamp |-> Num(now),
         lastMessage |-> Str("q"), title |-> Str("q"),
         messages |-> Arr(<<Message("1", "model", "hi"), Message("2", "user", "q")>>)]) :
      k \in 1 .. (IF Cardinality(SessionsSeen) < MaxSessions
                  THEN Cardinality(SessionsSeen) + 1 ELSE MaxSessions) }

AutosaveChat ==
  /\ nSaves < MaxChatSaves
  /\ \E dt \in Ticks, writeOk \in WriteOutcomes :
       \E session \in SessionInputs(clock + dt) : saveChatSession(session, dt, writeOk)
  /\ UNCHANGED <<chat, home>>

NextChats ==
  \/ AutosaveChat
  \/ LoadChats

SpecChats == Init /\ [][NextChats]_vars

(*********** a cloud store that already holds documents (SpecLoad) **********)

MaxLoadSaves == 1

DocName(i) == "d-" \o ToString(i)

\* LimitCount + 1 analyses of user u1, written in earlier sessions; the two
\* oldest carry the same timestamp
StoredAnalyses ==
  [k \in {DocName(i) : i \in 1 .. LimitCount + 1} |->
     LET i == CHOOSE j \in 1 .. LimitCount + 1 : DocName(j) = k
     IN Obj([id |-> Str(k), timestamp |-> Num(100 + (IF i = 1 THEN 2 ELSE i)),
             productName |-> Str("p0")])]

FullCloud ==
  [EmptyCloud EXCEPT !["u1"]["analyses"] = StoredAnalyses]

InitLoad ==
  /\ authHandle \in BOOLEAN
  /\ db \in BOOLEAN
  /\ db => authHandle
  /\ currentUser = NoUser
  /\ localStorage = [k \in StorageKeys |-> Null]
  /\ cloud \in {EmptyCloud, FullCloud}
  /\ clock = 1
  /\ nextUuid = 1
  /\ nSaves = 0
  /\ savedLog = [k \in HistoryKeys |-> <<>>]
  /\ last = NoLast
  /\ pending = {}
  /\ chat = NoChat
  /\ home = NoHome
  /\ identity = NoIdentity
  /\ profiles = NoProfiles

\* a generation record without an id: the store assigns the key
UnkeyedGenerationInputs(now) ==
  { Obj([timestamp |-> Num(now), prompt |-> Str("p3"), mode |-> Str("standard")]) }

StoreAnalysis ==
  /\ nSaves < MaxLoadSaves
  /\ \E dt \in Ticks, writeOk \in WriteOutcomes :
       \E result \in AnalysisInputs(clock + dt) : saveToHistory(result, dt, writeOk)
  /\ UNCHANGED <<chat, home>>

StoreChat ==
  /\ nSaves < MaxLoadSaves
  /\ \E dt \in Ticks, writeOk \in WriteOutcomes :
       \E session \in ChatInputs(clock + dt) : saveChatSession(session, dt, writeOk)
  /\ UNCHANGED <<chat, home>>

StoreTool ==
  /\ nSaves < MaxLoadSaves
  /\ \E dt \in Ticks, writeOk \in WriteOutcomes :
       \E gen \in UnkeyedGenerationInputs(clock + dt) : saveGeneration(gen, dt, writeOk)
  /\ UNCHANGED <<chat, home>>

SignInAny == \E u \in Users, ok \in BOOLEAN : loginWithEmail(u, ok)

NextLoad ==
  \/ StoreAnalysis
  \/ StoreChat
  \/ StoreTool
  \/ LoadAnalyses
  \/ LoadChats
  \/ LoadTools
  \/ SignInAny
  \/ SignOut
  \/ DemoLogin

SpecLoad == InitLoad /\ [][NextLoad]_vars

(********* Save calls whose cloud write is still awaited (SpecAsync) ********)

MaxAsyncSaves == 3

\* the list a Save call writes back to the slot of its kind
Updated(collectionName, entry, currentLocal) ==
  CASE collectionName = "analyses" -> AnalysisUpdated(entry, currentLocal)
    [] collectionName = "chats" -> ChatUpdated(entry, currentLocal)
    [] OTHER -> ToolsUpdated(entry, currentLocal)

\* a read of the slot made ahead of the await: the list as it was at the call
CurrentLocal_ReadBeforeAwait(p) == p.seen

\* JSON.parse(localStorage.getItem(key) || '[]'), evaluated after the await
CurrentLocal(p) == ParsedList(KeyOf(p.coll))

\* A Save call up to `await setDoc(..)` / `await addDoc(..)`: in cloud mode,
\* with data the store takes, the write is sent and the call waits.
saveAwaits(collectionName, arg, entry, dt) ==
  LET cleanData == sanitizeForFirestore(entry)
      hasId == Truthy(Get(cleanData, "id"))
      docId == IF hasId THEN Get(cleanData, "id").s ELSE Uuid(nextUuid)
      op == CloudOp(IF hasId THEN "setDoc" ELSE "addDoc", collectionName, docId, cleanData)
  IN /\ isRealBackendAvailable
     /\ currentUser # NoUser
     /\ FirestoreAccepts(cleanData)
     /\ pending' = pending \cup
                     {[call |-> nSaves + 1, coll |-> collectionName, arg |-> arg,
                       entry |-> entry, uid |-> currentUser, docId |-> docId,
                       payload |-> cleanData,
                       seen |-> ParsedList(KeyOf(collectionName))]}
     /\ nSaves' = nSaves + 1
     /\ clock' = clock + dt
     /\ nextUuid' = nextUuid + (IF hasId THEN 0 ELSE 1)
                    + (IF Get(entry, "id") = Str(Uuid(nextUuid)) THEN 1 ELSE 0)
     /\ last' = [NoLast EXCEPT !.op = "await", !.coll = collectionName, !.arg = arg,
                               !.entry = entry, !.mode = TRUE, !.issued = {op},
                               !.result = Num(nSaves + 1)]
     /\ UNCHANGED <<authHandle, db, currentUser, localStorage, cloud, savedLog,
                    identity, profiles>>

\* The awaited write is answered (`writeOk`: it went through; a rejection is
\* caught and logged), and the rest of the Save call runs: read the slot,
\* update, write back.
saveResumes(p, writeOk) ==
  /\ p \in pending
  /\ pending' = pending \ {p}
  /\ cloud' = IF writeOk
              THEN [cloud EXCEPT ![p.uid][p.coll] = Put(@, p.docId, p.payload)]
              ELSE cloud
  /\ localStorage' = SetItemJson(KeyOf(p.coll),
                                 Updated(p.coll, p.entry, CurrentLocal(p)))
  /\ savedLog' = Logged(KeyOf(p.coll), p.arg, p.entry, p.call, writeOk)
  /\ last' = [NoLast EXCEPT !.op = "resume", !.coll = p.coll, !.arg = p.arg,
                            !.entry = p.entry, !.cloudFailed = ~writeOk,
                            !.logged = ~writeOk, !.result = Num(p.call)]
  /\ UNCHANGED <<authHandle, db, currentUser, clock, nextUuid, nSaves,
                 identity, profiles>>

\* does a Save call have to wait for the store?
Awaits(entry) ==
  isRealBackendAvailable /\ FirestoreAccepts(sanitizeForFirestore(entry))

\* the chat view saves one of two sessions as it stands at this call
AsyncChatInputs(now) ==
  { Obj([id |-> Str(sid), timestamp |-> Num(now),
         lastMessage |-> Str("m" \o ToString(nSaves + 1)), title |-> Str("q"),
         messages |-> Arr(<<Message("1", "model", "hi"),
                            Message("2", "user", "m" \o ToString(nSaves + 1))>>)]) :
      sid \in {"s1", "s2"} }

CallSaveAnalysis ==
  /\ nSaves < MaxAsyncSaves
  /\ \E dt \in Ticks :
       LET result == FreshAnalysis(clock + dt)
       IN IF Awaits(NewEntry(result, clock + dt))
          THEN saveAwaits("analyses", result, NewEntry(result, clock + dt), dt)
          ELSE saveToHistory(result, dt, TRUE)
  /\ UNCHANGED <<chat, home>>

CallSaveChat ==
  /\ nSaves < MaxAsyncSaves
  /\ \E dt \in Ticks :
       \E session \in AsyncChatInputs(clock + dt) :
         IF Awaits(session)
         THEN saveAwaits("chats", session, session, dt)
         ELSE saveChatSession(session, dt, TRUE)
  /\ UNCHANGED <<chat, home>>

CallSaveTool ==
  /\ nSaves < MaxAsyncSaves
  /\ \E dt \in Ticks :
       LET gen == FreshGeneration(clock + dt)
       IN IF Awaits(gen)
          THEN saveAwaits("generations", gen, gen, dt)
          ELSE saveGeneration(gen, dt, TRUE)
  /\ UNCHANGED <<chat, home>>

ResumeSave ==
  /\ \E p \in pending, writeOk \in BOOLEAN : saveResumes(p, writeOk)
  /\ UNCHANGED <<chat, home>>

NextAsync ==
  \/ CallSaveAnalysis
  \/ CallSaveChat
  \/ CallSaveTool
  \/ ResumeSave
  \/ SignIn
  \/ SignOut

SpecAsync == Init /\ [][NextAsync]_vars

(************* src/services/gemini.ts: sendChatMessage (SpecSend) ***********)

MaxTurns == 3

\* the strings made of white space only
BlankStrings == {"", " ", "  "}

\* String.prototype.trim()
Trim(str) ==
  CASE str \in BlankStrings -> ""
    [] str = " hi " -> "hi"
    [] OTHER -> str

\* (p.text && p.text.trim().length > 0) || p.inlineData
KeepsPart(p) ==
  \/ Truthy(Get(p, "text")) /\ Trim(Get(p, "text").s) # ""
  \/ Truthy(Get(p, "inlineData"))

\* item => ({ role: item.role, parts: item.parts.filter(..) })
SanitizedTurn(item) ==
  Obj([role |-> Get(item, "role"),
       parts |-> Arr(SelectSeq(Get(item, "parts").e, KeepsPart))])

HasParts(item) == Len(Get(item, "parts").e) > 0

\* a loop that shifts at most once
DropLeadingTurns_OnlyOne(h) ==
  IF Len(h) > 0 /\ Get(h[1], "role") # Str("user") THEN Tail(h) ELSE h

\* while (validHistory.length > 0 && validHistory[0].role !== 'user') shift()
RECURSIVE DropLeadingTurns(_)
DropLeadingTurns(h) ==
  IF Len(h) > 0 /\ Get(h[1], "role") # Str("user")
  THEN DropLeadingTurns(Tail(h))
  ELSE h

\* the history handed to ai.chats.create
validHistory(history) ==
  DropLeadingTurns(
    SelectSeq([i \in DOMAIN history |-> SanitizedTurn(history[i])], HasParts))

\* part lists of a turn: text, blank text, an image, and mixtures
PartLists ==
  LET text == Obj([text |-> Str("hi")])
      padded == Obj([text |-> Str(" hi ")])
      blank == Obj([text |-> Str(" ")])
      image == Obj([inlineData |-> Obj([mimeType |-> Str("image/png"), data |-> Str("AAA")])])
  IN {<<>>, <<text>>, <<blank>>, <<image>>, <<blank, image>>, <<padded, image>>,
      <<blank, blank>>}

Turns ==
  {Obj([role |-> Str(r), parts |-> Arr(ps)]) : r \in {"user", "model"}, ps \in PartLists}

Histories == UNION {[1 .. n -> Turns] : n \in 0 .. MaxTurns}

InitSend ==
  /\ authHandle = TRUE
  /\ db = TRUE
  /\ currentUser = NoUser
  /\ localStorage = [k \in StorageKeys |-> Null]
  /\ cloud = EmptyCloud
  /\ clock = 1
  /\ nextUuid = 1
  /\ nSaves = 0
  /\ savedLog = [k \in HistoryKeys |-> <<>>]
  /\ last = NoLast
  /\ pending = {}
  /\ \E h \in Histories : chat = [NoChat EXCEPT !.history = Arr(h)]
  /\ home = NoHome
  /\ identity = NoIdentity
  /\ profiles = NoProfiles

\* sendChatMessage(history, ..) up to ai.chats.create({ history: validHistory })
sendChatMessage ==
  /\ chat.history # Null
  /\ chat.sent = Null
  /\ chat' = [chat EXCEPT !.sent = Arr(validHistory(chat.history.e))]
  /\ UNCHANGED <<authHandle, db, currentUser, localStorage, cloud, clock, nextUuid,
                 nSaves, savedLog, last, pending, home, identity, profiles>>

NextSend == sendChatMessage

SpecSend == InitSend /\ [][NextSend]_vars

(****************** src/pages/Chat.tsx: the chat view (SpecView) ************)

MaxMessages == 3
MaxMounts == 2

\* the unchanged rest of the state when only the view moves
ViewOnly ==
  UNCHANGED <<authHandle, db, currentUser, localStorage, cloud, clock, nSaves,
              savedLog, last, pending, home, identity, profiles>>

\* first render: useState(crypto.randomUUID()), useState([welcome message])
mount ==
  /\ ~chat.mounted
  /\ nextUuid <= MaxMounts
  /\ chat' = [NoChat EXCEPT !.mounted = TRUE, !.sessionId = Uuid(nextUuid),
                            !.messages = <<Message("1", "model", "welcome")>>,
                            !.effectDue = TRUE, !.nextTimer = chat.nextTimer]
  /\ nextUuid' = nextUuid + 1
  /\ ViewOnly

\* what the user can have typed or dictated
InputTexts == {"", " ", "q"}

\* onChange of the text area, and the speech recognition result: setInput
setInput(text) ==
  /\ chat.mounted
  /\ chat.input # text
  /\ chat' = [chat EXCEPT !.input = text]
  /\ UNCHANGED nextUuid
  /\ ViewOnly

\* reader.onloadend of handleFileSelect, and removeAttachment: setAttachedImage
setAttachedImage(image) ==
  /\ chat.mounted
  /\ chat.attachedImage # image
  /\ chat' = [chat EXCEPT !.attachedImage = image]
  /\ UNCHANGED nextUuid
  /\ ViewOnly

\* a guard that forgets the loading flag
Blocked_IgnoresLoading(input, attachedImage, isLoading) ==
  Trim(input) = "" /\ ~attachedImage

\* if ((!input.trim() && !attachedImage) || isLoading) return;
Blocked(input, attachedImage, isLoading) ==
  (Trim(input) = "" /\ ~attachedImage) \/ isLoading

\* input.trim() || (attachedImage ? "Analyze this image" : "")
messageText(input, attachedImage) ==
  IF Trim(input) # "" THEN Trim(input)
  ELSE IF attachedImage THEN "Analyze this image" ELSE ""

\* currentParts of sendChatMessage: the text or a label for the image, then
\* the image
currentParts(message, image) ==
  (IF Trim(message) # "" THEN <<Obj([text |-> Str(message)])>>
   ELSE IF image THEN <<Obj([text |-> Str("Analyze this image.")])>>
   ELSE <<>>)
  \o (IF image
      THEN <<Obj([inlineData |-> Obj([mimeType |-> Str("image/png"), data |-> Str("AAA")])])>>
      ELSE <<>>)

\* a list that takes the new message in front
Appended_InFront(prev, msg) == <<msg>> \o prev

\* [...messages, userMsg] and prev => [...prev, botMsg]
Appended(prev, msg) == Append(prev, msg)

\* the bound of the model: the answered turns and one more fit in max messages
RoomForTurn(messages, max) ==
  2 * Len(SelectSeq(messages, LAMBDA m : Get(m, "role") = Str("model"))) + 1 <= max

\* handleSend up to its await: nothing when the guard blocks; else
\* setMessages([...messages, userMsg]), setInput(''), setAttachedImage(null),
\* setIsLoading(true) and the call of sendChatMessage
handleSend ==
  /\ chat.mounted
  /\ IF Blocked(chat.input, chat.attachedImage, chat.isLoading)
     THEN chat' = chat
     ELSE LET text == messageText(chat.input, chat.attachedImage)
          IN chat' = [chat EXCEPT
                        !.messages = Appended(@, Message(ToString(Len(@) + 1),
                                                         "user", text)),
                        !.input = "", !.attachedImage = FALSE,
                        !.isLoading = TRUE, !.effectDue = TRUE,
                        !.inFlight = @ + 1,
                        !.request = Arr(currentParts(text, chat.attachedImage))]
  /\ UNCHANGED nextUuid
  /\ ViewOnly

\* the texts the model answers with: an answer, and none
ResponseTexts == {"a", ""}

\* responseText || "I couldn't generate a response. Please try again.", and
\* the text of the catch block
botText(responseText, ok) ==
  IF ~ok THEN "Sorry, I encountered an error checking that for you."
  ELSE IF responseText # "" THEN responseText
  ELSE "I couldn't generate a response. Please try again."

\* a finally block that leaves the flag set
isLoadingAfterReply_StaysSet == TRUE

\* finally { setIsLoading(false) }
isLoadingAfterReply == FALSE

\* handleSend after its await: setMessages(prev => [...prev, botMsg]) or the
\* error message, then setIsLoading(false)
handleSendResumes(responseText, ok) ==
  /\ chat.mounted
  /\ chat.inFlight > 0
  /\ chat' = [chat EXCEPT
                !.messages = Appended(@, Message(ToString(Len(@) + 1), "model",
                                                 botText(responseText, ok))),
                !.isLoading = isLoadingAfterReply, !.effectDue = TRUE,
                !.inFlight = @ - 1,
                !.request = IF chat.inFlight = 1 THEN Null ELSE @]
  /\ UNCHANGED nextUuid
  /\ ViewOnly

\* messages.find(m => m.role === 'user')?.text, or 'New Conversation'
TitleOf(messages) ==
  LET users == {i \in DOMAIN messages : Get(messages[i], "role") = Str("user")}
  IN IF users = {} THEN Str("New Conversation")
     ELSE Get(messages[CHOOSE i \in users : \A j \in users : i <= j], "text")

\* the session object the effect builds (the texts here are shorter than the
\* 100 and 40 characters substring() keeps)
SessionOf(sessionId, messages, now) ==
  Obj([id |-> Str(sessionId), timestamp |-> Num(now),
       lastMessage |-> Get(messages[Len(messages)], "text"),
       messages |-> Arr(messages), title |-> TitleOf(messages)])

\* an effect whose cleanup clears nothing
ClearedByCleanup_Nothing(timers, cleanup) == timers

\* return () => clearTimeout(timeout): the timeout of the previous run is gone
ClearedByCleanup(timers, cleanup) == {t \in timers : t.id # cleanup}

\* The autosave effect runs for the committed messages: the cleanup of the
\* previous run, then, with more than the welcome message, a new timeout.
autosaveEffect ==
  /\ chat.mounted
  /\ chat.effectDue
  /\ LET left == ClearedByCleanup(chat.timers, chat.cleanup)
     IN chat' = IF Len(chat.messages) > 1
                THEN [chat EXCEPT
                        !.effectDue = FALSE, !.rendered = Len(chat.messages),
                        !.timers = left \cup
                                     {[id |-> chat.nextTimer,
                                       session |-> SessionOf(chat.sessionId, chat.messages,
                                                             clock)]},
                        !.cleanup = chat.nextTimer, !.nextTimer = @ + 1]
                ELSE [chat EXCEPT !.effectDue = FALSE, !.rendered = Len(chat.messages),
                                  !.timers = left, !.cleanup = 0]
  /\ UNCHANGED nextUuid
  /\ ViewOnly

\* a timeout fires: saveChatSession(session)
timerFires(t, dt, writeOk) ==
  /\ t \in chat.timers
  /\ chat' = [chat EXCEPT !.timers = @ \ {t}]
  /\ saveChatSession(t.session, dt, writeOk)
  /\ UNCHANGED home

\* the view is left: the cleanup of the effect runs a last time
unmount ==
  /\ chat.mounted
  /\ chat' = [chat EXCEPT !.mounted = FALSE, !.isLoading = FALSE, !.effectDue = FALSE,
                          !.timers = ClearedByCleanup(@, chat.cleanup), !.cleanup = 0,
                          !.input = "", !.attachedImage = FALSE, !.inFlight = 0,
                          !.request = Null]
  /\ UNCHANGED nextUuid
  /\ ViewOnly

ReceiveReply ==
  \E responseText \in ResponseTexts, ok \in BOOLEAN : handleSendResumes(responseText, ok)

SetInput == \E text \in InputTexts : setInput(text)

SetAttachedImage == \E image \in BOOLEAN : setAttachedImage(image)

TimerFires ==
  \E t \in chat.timers, dt \in Ticks, writeOk \in WriteOutcomes : timerFires(t, dt, writeOk)

\* the view with its autosave; attachments are left to SpecTurns
NextView ==
  \/ mount
  \/ SetInput
  \/ RoomForTurn(chat.messages, MaxMessages) /\ handleSend
  \/ ReceiveReply
  \/ autosaveEffect
  \/ TimerFires
  \/ unmount

SpecView == Init /\ [][NextView]_vars

\* React runs a due effect, the event loop runs a due timeout, the model
\* answers; the user may stop sending and may leave at any time
SpecViewFair ==
  /\ SpecView
  /\ WF_vars(autosaveEffect)
  /\ WF_vars(TimerFires)
  /\ WF_vars(ReceiveReply)

(************ src/pages/Chat.tsx: the turns of a chat (SpecTurns) ***********)

MaxExchanged == 5

\* the view without its autosave: opening, typing, attaching, sending, the
\* reply, leaving
NextTurns ==
  \/ mount
  \/ SetInput
  \/ SetAttachedImage
  \/ RoomForTurn(chat.messages, MaxExchanged) /\ handleSend
  \/ ReceiveReply
  \/ unmount

SpecTurns == Init /\ [][NextTurns]_vars

\* the request settles: sendChatMessage returns or throws; what the user does
\* is not constrained
SpecTurnsFair == SpecTurns /\ WF_vars(ReceiveReply)

(************************** the home page: analysis ************************)

MaxAnalyses == 2

\* JSON texts the model can answer with, and the text that is no JSON
PlainText == "{\"productName\":\"p\",\"valueScore\":7}"
TextWithId == "{\"productName\":\"q\",\"id\":\"x\",\"timestamp\":5}"
NullText == "null"
BrokenText == "{\"productName\":"

\* JSON.parse(text): ok is FALSE where it throws a SyntaxError
JsonParse(text) ==
  CASE text = PlainText ->
         [ok |-> TRUE,
          value |-> Obj([k \in {"productName", "valueScore"} |->
                           IF k = "productName" THEN Str("p") ELSE Num(7)])]
    [] text = TextWithId ->
         [ok |-> TRUE,
          value |-> Obj([k \in {"productName", "id", "timestamp"} |->
                           IF k = "productName" THEN Str("q")
                           ELSE IF k = "id" THEN Str("x") ELSE Num(5)])]
    [] text = NullText -> [ok |-> TRUE, value |-> Null]
    [] OTHER -> [ok |-> FALSE, value |-> Undef]

\* grounding chunks: one with a web uri and title, one without web, one whose
\* web has no uri
WebChunk ==
  Obj([k \in {"web"} |->
         Obj([x \in {"title", "uri"} |-> IF x = "title" THEN Str("t") ELSE Str("u")])])
OtherChunk == Obj(EmptyMap)
NoUriChunk == Obj([k \in {"web"} |-> Obj([x \in {"title"} |-> Str("t")])])

\* response.candidates?.[0]?.groundingMetadata?.groundingChunks
ChunkLists ==
  {Undef, Arr(<<>>), Arr(<<WebChunk>>), Arr(<<OtherChunk>>), Arr(<<NoUriChunk, WebChunk>>)}

\* what generateContent settles with: a rejection with its message, or a
\* response with its text and its grounding chunks
Responses ==
  [transport : {"fails"}, message : {"", "network"}, text : {Undef}, chunks : {Undef}]
  \cup [transport : {"ok"}, message : {""},
        text : {Undef, Str(""), Str(BrokenText), Str(PlainText), Str(TextWithId),
                Str(NullText)},
        chunks : ChunkLists]

\* c.web?.uri
HasWebUri(c) == Truthy(Get(Get(c, "web"), "uri"))

\* chunks.filter(c => c.web?.uri).map(c => ({ title: c.web.title, uri: c.web.uri }))
LinksOf(chunks) ==
  LET kept == SelectSeq(chunks, HasWebUri)
  IN [i \in DOMAIN kept |->
        Obj([k \in {"title", "uri"} |->
               IF k = "title" THEN Get(Get(kept[i], "web"), "title")
               ELSE Get(Get(kept[i], "web"), "uri")])]

\* a catch block that logs and returns
catchRethrows_Swallows(threw) == FALSE

\* catch (error) { console.error(...); throw error; }
catchRethrows(threw) == threw

Raised(message) == [threw |-> TRUE, message |-> message, value |-> Undef]
Returned(value) == [threw |-> FALSE, message |-> "", value |-> value]

\* analyzeProductImage, given what generateContent settles with
analyzeProductImage(response) ==
  LET text == response.text
      chunks == response.chunks
      body ==
        IF response.transport # "ok" THEN Raised(response.message)
        ELSE IF ~Truthy(text) THEN Raised("No response from Gemini")
        ELSE IF ~JsonParse(text.s).ok THEN Raised("Unexpected end of JSON input")
        ELSE LET result == JsonParse(text.s).value
             IN IF ~Truthy(chunks) THEN Returned(result)
                ELSE IF result.t # "object"
                     THEN Raised("Cannot set properties of null")
                     ELSE Returned(Obj(Put(result.f, "searchLinks",
                                           Arr(LinksOf(chunks.e)))))
  IN IF body.threw /\ ~catchRethrows(body.threw) THEN Returned(Undef) ELSE body

\* { ...data }
SpreadOf(data) == IF data.t = "object" THEN data.f ELSE EmptyMap

\* a merge in which the fields of the response come last
FinalData_ResponseWins(data, uuid, now) ==
  LET f == SpreadOf(data)
  IN Obj(Put(Put(f, "id", IF "id" \in DOMAIN f THEN f["id"] ELSE Str(uuid)),
             "timestamp", IF "timestamp" \in DOMAIN f THEN f["timestamp"] ELSE Num(now)))

\* { ...data, id: crypto.randomUUID(), timestamp: Date.now() }
FinalData(data, uuid, now) ==
  Obj(Put(Put(SpreadOf(data), "id", Str(uuid)), "timestamp", Num(now)))

\* err.message || "Failed to analyze image."
ErrorShown(message) == IF message # "" THEN message ELSE "Failed to analyze image."

\* handleAnalyze up to the request: a file is selected and no analysis runs
handleAnalyze ==
  /\ home.started < MaxAnalyses
  /\ ~home.loading
  /\ home.result = Null
  /\ home' = [home EXCEPT !.loading = TRUE, !.error = Null,
                          !.started = @ + 1, !.outcome = "waiting",
                          !.response = Null, !.data = Null]
  /\ UNCHANGED <<authHandle, db, currentUser, localStorage, cloud, clock,
                 nextUuid, nSaves, savedLog, last, pending, chat,
                 identity, profiles>>

\* handleAnalyze from the moment the request settles
handleAnalyzeResumes(response, dt, writeOk) ==
  /\ home.loading
  /\ LET a == analyzeProductImage(response)
         finalData == FinalData(a.value, Uuid(nextUuid), clock + dt)
     IN IF a.threw
        THEN /\ home' = [home EXCEPT !.loading = FALSE,
                                     !.error = Str(ErrorShown(a.message)),
                                     !.outcome = "raised",
                                     !.response = response, !.data = Null]
             /\ UNCHANGED <<authHandle, db, currentUser, localStorage, cloud,
                            clock, nextUuid, nSaves, savedLog, last, pending,
                            identity, profiles>>
        ELSE /\ saveToHistory(finalData, dt, writeOk)
             /\ home' = [home EXCEPT !.loading = FALSE, !.result = finalData,
                                     !.outcome = "returned",
                                     !.response = response, !.data = a.value]
  /\ UNCHANGED chat

\* onReset of the result page: setResult(null)
onReset ==
  /\ home.result # Null
  /\ home' = [home EXCEPT !.result = Null]
  /\ UNCHANGED <<authHandle, db, currentUser, localStorage, cloud, clock,
                 nextUuid, nSaves, savedLog, last, pending, chat,
                 identity, profiles>>

AnalysisSettles ==
  \E response \in Responses, dt \in Ticks, writeOk \in WriteOutcomes :
    handleAnalyzeResumes(response, dt, writeOk)

NextHome ==
  \/ handleAnalyze
  \/ AnalysisSettles
  \/ onReset
  \/ SignIn
  \/ SignOut

SpecHome == Init /\ [][NextHome]_vars

(********************* src/services/gemini.ts: images **********************)

MaxParts == 2
MaxCandidates == 2

\* content parts: text, an image with and without mime type, an image part
\* whose data is empty
TextPart == Obj([k \in {"text"} |-> Str("t")])
ImagePart(data, mime) ==
  Obj([k \in {"inlineData"} |->
         Obj([x \in {"data", "mimeType"} |-> IF x = "data" THEN Str(data) ELSE mime])])
ImageParts ==
  {TextPart, ImagePart("AAA", Str("image/jpeg")), ImagePart("BBB", Undef),
   ImagePart("", Str("image/png"))}

ImagePartLists == UNION {[1 .. n -> ImageParts] : n \in 0 .. MaxParts}

\* a candidate without content, with content without parts, with a part list
Candidates ==
  {Obj(EmptyMap), Obj([k \in {"content"} |-> Obj(EmptyMap)])}
  \cup {Obj([k \in {"content"} |-> Obj([x \in {"parts"} |-> Arr(l)])]) :
          l \in ImagePartLists}

\* what generateContent settles with for an image request
ImageResponses ==
  [transport : {"fails"}, candidates : {Undef}]
  \cup [transport : {"ok"},
        candidates : {Undef} \cup
                     {Arr(l) : l \in UNION {[1 .. n -> Candidates] : n \in 0 .. MaxCandidates}}]

\* part.inlineData && part.inlineData.data
CarriesImage(part) ==
  Truthy(Get(part, "inlineData")) /\ Truthy(Get(Get(part, "inlineData"), "data"))

\* `data:${part.inlineData.mimeType || 'image/png'};base64,${part.inlineData.data}`
DataUri(part) ==
  LET inlineData == Get(part, "inlineData")
      mimeType == IF Truthy(Get(inlineData, "mimeType"))
                  THEN Get(inlineData, "mimeType").s ELSE "image/png"
  IN "data:" \o mimeType \o ";base64," \o Get(inlineData, "data").s

\* the first index of parts that carries an image, 0 for none
FirstImage(parts) ==
  LET hits == {i \in DOMAIN parts : CarriesImage(parts[i])}
  IN IF hits = {} THEN 0 ELSE CHOOSE i \in hits : \A j \in hits : i <= j

\* generateCustomImage, given what generateContent settles with
generateCustomImage(response) ==
  LET candidates == response.candidates
      body ==
        IF response.transport # "ok" THEN Raised("network")
        ELSE IF ~(Truthy(candidates) /\ Len(candidates.e) > 0) THEN Returned(Null)
        ELSE LET content == Get(candidates.e[1], "content")
                 parts == Get(content, "parts")
             IN IF content.t # "object"
                THEN Raised("Cannot read properties of undefined (reading 'parts')")
                ELSE IF parts.t # "array" THEN Raised("undefined is not iterable")
                ELSE IF FirstImage(parts.e) = 0 THEN Returned(Null)
                ELSE Returned(Str(DataUri(parts.e[FirstImage(parts.e)])))
  IN IF body.threw /\ ~catchRethrows(body.threw) THEN Returned(Undef) ELSE body

InitImage ==
  /\ authHandle = TRUE
  /\ db = TRUE
  /\ currentUser = NoUser
  /\ localStorage = [k \in StorageKeys |-> Null]
  /\ cloud = EmptyCloud
  /\ clock = 1
  /\ nextUuid = 1
  /\ nSaves = 0
  /\ savedLog = [k \in HistoryKeys |-> <<>>]
  /\ \E response \in ImageResponses :
       last = [NoLast EXCEPT !.op = "request", !.arg = response]
  /\ pending = {}
  /\ chat = NoChat
  /\ home = NoHome
  /\ identity = NoIdentity
  /\ profiles = NoProfiles

\* the call returns or raises
GenerateImage ==
  /\ last.op = "request"
  /\ LET r == generateCustomImage(last.arg)
     IN last' = [last EXCEPT !.op = "generateCustomImage", !.raised = r.threw,
                             !.result = r.value]
  /\ UNCHANGED <<authHandle, db, currentUser, localStorage, cloud, clock, nextUuid,
                 nSaves, savedLog, pending, chat, home, identity, profiles>>

NextImage == GenerateImage

SpecImage == InitImage /\ [][NextImage]_vars

(************** src/services/firebase.ts: identity (SpecAuth) **************)

MaxDeliveries == 2

\* no callback has been called MaxDeliveries times yet
MayDeliver == \A i \in Subscribers : Len(identity.subs[i].got) < MaxDeliveries

\* the next callback to subscribe
NextSubscriber ==
  {i \in Subscribers :
     /\ identity.subs[i].status = "none"
     /\ \A j \in Subscribers : j < i => identity.subs[j].status # "none"}

Subscribe == MayDeliver /\ \E i \in NextSubscriber : subscribeToAuthChanges(i)

Unsubscribe == \E i \in Subscribers : unsubscribe(i)

Register == MayDeliver /\ \E ok \in BOOLEAN : registerWithEmail("u1", ok)

Login == MayDeliver /\ \E ok \in BOOLEAN : loginWithEmail("u1", ok)

ResetPassword == \E ok \in BOOLEAN : resetPassword(ok)

GoogleSignIn == MayDeliver /\ \E outcome \in PopupOutcomes : signInWithGoogle("u1", outcome)

Logout == MayDeliver /\ \E ok \in BOOLEAN : logout(ok)

NextAuth ==
  \/ Subscribe
  \/ Unsubscribe
  \/ Register
  \/ Login
  \/ ResetPassword
  \/ GoogleSignIn
  \/ Logout
  \/ DemoLogin

SpecAuth == Init /\ [][NextAuth]_vars

(********** src/services/firebase.ts: user profiles (SpecProfile) **********)

MaxProfileTime == 4

GetDocAnswers ==
  /\ clock < MaxProfileTime
  /\ \E run \in profiles.runs, ok \in BOOLEAN : getDocAnswers(run, ok)

SetDocAnswers == \E run \in profiles.runs, ok \in BOOLEAN : setDocAnswers(run, ok)

NextProfile ==
  \/ Subscribe
  \/ Login
  \/ Logout
  \/ DemoLogin
  \/ GetDocAnswers
  \/ SetDocAnswers
  \/ connectivityChanges

SpecProfile == Init /\ [][NextProfile]_vars

(****************************** properties *********************************)

\* cloud mode, read off the state: a store handle, a signed-in user, no demo flag
CloudActive == db /\ currentUser # NoUser /\ localStorage[DEMO_KEY] = Null

\* a local slot as a list ([] when the slot is empty)
Stored(key) == IF localStorage[key] = Null THEN <<>> ELSE localStorage[key].e

\* v with every undefined-valued field removed, at every depth
RECURSIVE WithoutUndefinedFields(_)
WithoutUndefinedFields(v) ==
  CASE v.t = "array" -> Arr([i \in DOMAIN v.e |-> WithoutUndefinedFields(v.e[i])])
    [] v.t = "object" ->
         Obj([k \in {x \in DOMAIN v.f : v.f[x].t # "undefined"}
                |-> WithoutUndefinedFields(v.f[k])])
    [] OTHER -> v

\* v as JSON text can hold it: undefined-valued fields removed, undefined list
\* elements null, at every depth
RECURSIVE JsonForm(_)
JsonForm(v) ==
  CASE v.t = "array" ->
         Arr([i \in DOMAIN v.e |->
                IF v.e[i].t = "undefined" THEN Null ELSE JsonForm(v.e[i])])
    [] v.t = "object" ->
         Obj([k \in {x \in DOMAIN v.f : v.f[x].t # "undefined"} |-> JsonForm(v.f[k])])
    [] OTHER -> v

\* the positions of a list whose entry carries this id
WithId(list, id) == {i \in DOMAIN list : Get(list[i], "id") = id}

\* the most recent save mirrored into a slot
Latest(key) == savedLog[key][Len(savedLog[key])]

TimestampsDescend(list) ==
  \A i, j \in DOMAIN list :
    i < j => Get(list[i], "timestamp").n >= Get(list[j], "timestamp").n

(* C1: for every kind, in the cloud and in the local fallback, a save of a   *)
(* record with an explicit id that follows a save of the same id with other  *)
(* values leaves exactly one stored record with that id, holding the later   *)
(* values.                                                                   *)
C1_SaveOverwrites ==
  LET key == KeyOf(last.coll)
      id == Get(last.entry, "id")
      log == savedLog[key]
      list == Stored(key)
  IN (/\ last.op = "save"
      /\ Truthy(Get(last.arg, "id"))
      /\ \E j \in 1 .. Len(log) - 1 :
           Get(log[j].entry, "id") = id /\ log[j].arg # last.arg)
     => /\ Cardinality(WithId(list, id)) = 1
        /\ \A i \in WithId(list, id) : list[i] = JsonForm(last.entry)
        /\ (last.issued # {} /\ ~last.cloudFailed) =>
             LET docs == cloud[currentUser][last.coll]
             IN /\ {k \in DOMAIN docs : Get(docs[k], "id") = id} = {id.s}
                /\ docs[id.s] = WithoutUndefinedFields(last.entry)

(* C2: with cloud mode inactive, the Load that follows Save(record) returns  *)
(* as its first element the record with every undefined-valued field        *)
(* removed recursively.                                                      *)
C2_LoadReturnsRecord ==
  LET key == KeyOf(last.coll)
  IN (last.op = "load" /\ ~CloudActive /\ savedLog[key] # <<>>)
     => /\ last.result.t = "array"
        /\ Len(last.result.e) >= 1
        /\ last.result.e[1] = WithoutUndefinedFields(Latest(key).arg)

\* the entry a save stores for a record: the record itself, except that
\* saveToHistory fills in a missing or falsy id and timestamp
IsEntryOf(entry, arg, collectionName) ==
  IF collectionName = "analyses"
  THEN /\ DOMAIN entry.f = (DOMAIN arg.f) \cup {"id", "timestamp"}
       /\ \A k \in (DOMAIN arg.f) \ {"id", "timestamp"} : entry.f[k] = arg.f[k]
       /\ \A k \in {"id", "timestamp"} :
            /\ Truthy(entry.f[k])
            /\ Truthy(Get(arg, k)) => entry.f[k] = arg.f[k]
  ELSE entry = arg

(* C2, amended: with cloud mode inactive, the Load that follows Save(record) *)
(* returns the saved entry (the record, with id and timestamp filled in by   *)
(* saveToHistory when missing) in its JSON form: undefined-valued fields     *)
(* removed, undefined list elements null.  It is the first element for       *)
(* analyses and generations; for a chat session it is the one element with   *)
(* that id, first when the id was not stored before.                         *)
C2_LoadReturnsJsonFormOfEntry ==
  LET key == KeyOf(last.coll)
      log == savedLog[key]
      entry == Latest(key).entry
      res == last.result.e
  IN (last.op = "load" /\ ~CloudActive /\ log # <<>>)
     => /\ last.result.t = "array"
        /\ IsEntryOf(entry, Latest(key).arg, last.coll)
        /\ IF last.coll = "chats"
           THEN /\ Cardinality(WithId(res, Get(entry, "id"))) = 1
                /\ \A i \in WithId(res, Get(entry, "id")) : res[i] = JsonForm(entry)
                /\ (\A j \in 1 .. Len(log) - 1 :
                      Get(log[j].entry, "id") # Get(entry, "id"))
                   => res[1] = JsonForm(entry)
           ELSE Len(res) >= 1 /\ res[1] = JsonForm(entry)

\* a Load of analyses follows the save of a record that had no id and held
\* an undefined-valued field
C2_Witness ==
  /\ last.op = "load"
  /\ last.coll = "analyses"
  /\ ~CloudActive
  /\ savedLog[ANALYSIS_KEY] # <<>>
  /\ ~Truthy(Get(Latest(ANALYSIS_KEY).arg, "id"))
  /\ HasUndefined(Latest(ANALYSIS_KEY).arg)
  /\ Len(last.result.e) >= 2

\* the smaller of two numbers
Min(a, b) == IF a < b THEN a ELSE b

\* a slot holds the last min(n, cap) of the n entries saved into it, the most
\* recently saved first
HoldsLatest(key, cap) ==
  LET log == savedLog[key]
      list == Stored(key)
      n == Len(log)
  IN /\ Len(list) = Min(n, cap)
     /\ \A i \in DOMAIN list : list[i] = JsonForm(log[n - i + 1].entry)

(* C3: from an empty local fallback, after n saves of distinct analysis      *)
(* records (likewise generation records) the local collection holds exactly  *)
(* the last min(n, 10) saved records, most recently saved first, and it      *)
(* never holds more than 10.                                                 *)
C3_RetentionCap ==
  /\ HoldsLatest(ANALYSIS_KEY, 10)
  /\ HoldsLatest(TOOLS_KEY, 10)
  /\ Len(Stored(ANALYSIS_KEY)) <= 10
  /\ Len(Stored(TOOLS_KEY)) <= 10

\* an eleventh distinct analysis has been saved and the oldest one is gone
C3_Witness ==
  /\ last.op = "save"
  /\ last.coll = "analyses"
  /\ Len(savedLog[ANALYSIS_KEY]) >= 11
  /\ Len(Stored(ANALYSIS_KEY)) = 10
  /\ WithId(Stored(ANALYSIS_KEY), Get(savedLog[ANALYSIS_KEY][1].entry, "id")) = {}

\* the positions of the saves issued for a session id
SavesOf(id) ==
  {j \in DOMAIN savedLog[CHAT_KEY] : Get(savedLog[CHAT_KEY][j].entry, "id") = id}

\* the position of the most recent save issued for a session id
LastSaveOf(id) == CHOOSE j \in SavesOf(id) : \A k \in SavesOf(id) : k <= j

SavedSessions == {Get(savedLog[CHAT_KEY][j].entry, "id") : j \in DOMAIN savedLog[CHAT_KEY]}

\* the sessions whose last save is among the n most recent last saves
MostRecentSessions(n) ==
  {id \in SavedSessions :
     Cardinality({o \in SavedSessions : LastSaveOf(o) > LastSaveOf(id)}) < n}

(* C5: after any sequence of saveChatSession calls the local chat collection *)
(* never holds more than 5 sessions, and the sessions it holds are the 5     *)
(* most recent ones, by the time of their last save, among all saved.        *)
C5_KeepsMostRecentSessions ==
  LET list == Stored(CHAT_KEY)
  IN /\ Len(list) <= 5
     /\ {Get(list[i], "id") : i \in DOMAIN list} = MostRecentSessions(5)

(* C6: when Load falls back to the local collection (cloud mode inactive, or *)
(* the cloud result empty) it returns that collection exactly as stored,     *)
(* uncapped, and the returned list is ordered most recent first, that is by  *)
(* non-increasing timestamp, for every kind.                                 *)
C6_FallbackMostRecentFirst ==
  (last.op = "load" /\ (~CloudActive \/ last.arg.e = <<>>))
  => /\ last.result = Arr(Stored(KeyOf(last.coll)))
     /\ TimestampsDescend(last.result.e)

\* r is what a query hands back for the cloud document named k: its fields,
\* and the document name as id when the fields hold none
IsSnapshotOf(r, docs, k) ==
  /\ r.t = "object"
  /\ DOMAIN r.f = (DOMAIN docs[k].f) \cup {"id"}
  /\ \A x \in DOMAIN docs[k].f : r.f[x] = docs[k].f[x]
  /\ "id" \notin DOMAIN docs[k].f => r.f["id"] = Str(k)

(* C7: in cloud mode Load returns the cloud query result, ordered by         *)
(* timestamp descending and at most 20 records long, whenever that result is *)
(* not empty; it returns the local fallback collection when the cloud result *)
(* is empty or the cloud read fails; a cloud read failure never raises.      *)
C7_LoadPrefersCloud ==
  (last.op = "load" /\ CloudActive)
  => LET docs == cloud[currentUser][last.coll]
         dated == {k \in DOMAIN docs : Get(docs[k], "timestamp").t = "number"}
         res == last.result.e
     IN /\ ~last.raised
        /\ last.result.t = "array"
        /\ IF last.cloudFailed \/ dated = {}
           THEN res = Stored(KeyOf(last.coll))
           ELSE /\ Len(res) = Min(Cardinality(dated), 20)
                /\ TimestampsDescend(res)
                /\ \A i \in DOMAIN res : \E k \in dated : IsSnapshotOf(res[i], docs, k)
                /\ \A i, j \in DOMAIN res : i # j => res[i] # res[j]
                /\ \A k \in dated :
                     (\A i \in DOMAIN res : ~IsSnapshotOf(res[i], docs, k))
                     => \A i \in DOMAIN res :
                          Get(docs[k], "timestamp").n <= Get(res[i], "timestamp").n

\* a cloud-mode Load has answered with 20 of the 21 documents the cloud holds
C7_Witness ==
  /\ last.op = "load"
  /\ CloudActive
  /\ ~last.cloudFailed
  /\ Len(last.result.e) = 20
  /\ Cardinality(DOMAIN cloud[currentUser][last.coll]) = 21
  /\ last.result # Arr(Stored(KeyOf(last.coll)))

C9_SaveSurvivesCloudFailure ==
  last.op = "save"
  => LET list == Stored(KeyOf(last.coll))
     IN /\ last.cloudFailed => ~last.raised
        /\ ~last.raised => \E i \in DOMAIN list : list[i] = JsonForm(last.entry)

\* a cloud write was attempted in cloud mode and failed
C9_Witness ==
  /\ last.op = "save"
  /\ CloudActive
  /\ last.cloudFailed
  /\ last.issued # {}
  /\ cloud[currentUser][last.coll] = <<>>

(* C10: for every record passed to Save in cloud mode, the payload handed to *)
(* the cloud store holds no undefined value at any depth, neither as an      *)
(* object field nor as an element of a nested list.                          *)
C10_PayloadHoldsNoUndefined ==
  \A o \in last.issued :
    o.type \in {"setDoc", "addDoc"} => ~HasUndefined(o.payload)

(* C11: ClearAll empties the three local fallback collections in every mode, *)
(* whether or not cloud mode is active and whether or not a cloud deletion   *)
(* fails; with cloud mode inactive a Load of any kind directly after         *)
(* ClearAll returns an empty list.                                           *)
C11_ClearAllEmptiesLocal ==
  [][/\ last'.op = "clear" => \A k \in HistoryKeys : localStorage'[k] = Null
     /\ (last.op = "clear" /\ last'.op = "load" /\ ~CloudActive)
        => last'.result = Arr(<<>>)]_vars

\* ClearAll ran in cloud mode after some save, a cloud deletion failed, and
\* documents are left in the cloud
C11_Witness ==
  /\ last.op = "clear"
  /\ CloudActive
  /\ last.cloudFailed
  /\ nSaves >= 1
  /\ \E c \in Collections : cloud[currentUser][c] # <<>>
  /\ \A k \in HistoryKeys : localStorage[k] = Null

(* C12: in cloud mode ClearAll attempts the listing and the deletion of each *)
(* of the three kinds under the current user's namespace; a failure while    *)
(* clearing one kind does not raise and does not keep the other kinds from   *)
(* being deleted; without a failure every document of the three kinds that   *)
(* existed at the call is deleted.                                           *)
C12_ClearAllClearsEachKind ==
  [][(last'.op = "clear" /\ CloudActive)
     => LET u == currentUser
            rounds == last'.result.f
            Called(type, c, id) ==
              \E o \in last'.issued :
                o.type = type /\ o.uid = u /\ o.coll = c /\ o.id = id
        IN /\ ~last'.raised
           /\ \A c \in Collections :
                /\ Called("getDocs", c, "")
                /\ rounds[c] # "list-fails"
                   => \A k \in DOMAIN cloud[u][c] : Called("deleteDoc", c, k)
                /\ rounds[c] = "ok" => cloud'[u][c] = <<>>
                /\ DOMAIN cloud'[u][c] \subseteq DOMAIN cloud[u][c]
           /\ \A v \in Users \ {u} : cloud'[v] = cloud[v]]_vars

\* the round of the analyses failed, the round of the chats after it still
\* deleted the chat documents
C12_Witness ==
  /\ last.op = "clear"
  /\ CloudActive
  /\ last.result.f["analyses"] # "ok"
  /\ cloud[currentUser]["analyses"] # <<>>
  /\ last.result.f["chats"] = "ok"
  /\ \E o \in last.issued : o.type = "deleteDoc" /\ o.coll = "chats"
  /\ cloud[currentUser]["chats"] = <<>>

\* the position of the save of a session id that was issued last
LastIssuedOf(id) ==
  CHOOSE j \in SavesOf(id) :
    \A k \in SavesOf(id) : savedLog[CHAT_KEY][k].call <= savedLog[CHAT_KEY][j].call

(* C13: for one chat session id, saves take effect in the order they were    *)
(* issued: however the awaited cloud writes and the local writes after them  *)
(* interleave, once no save of the session is in flight the content stored   *)
(* for it, locally and in the cloud, is that of the save issued last.        *)
C13_LastIssuedSaveWins ==
  \A id \in SavedSessions :
    (\A p \in pending : p.coll = "chats" => Get(p.entry, "id") # id)
    => LET latest == savedLog[CHAT_KEY][LastIssuedOf(id)]
           list == Stored(CHAT_KEY)
       IN /\ \A i \in WithId(list, id) : list[i] = JsonForm(latest.entry)
          /\ latest.wrote
             => cloud["u1"]["chats"][id.s] = WithoutUndefinedFields(latest.entry)

\* each kind's slot holds what the calls that finished wrote, none missing
NoLocalWriteLost ==
  /\ HoldsLatest(ANALYSIS_KEY, 10)
  /\ HoldsLatest(TOOLS_KEY, 10)
  /\ \A id \in SavedSessions :
       LET list == Stored(CHAT_KEY)
       IN /\ Cardinality(WithId(list, id)) = 1
          /\ \A i \in WithId(list, id) :
               list[i] = JsonForm(savedLog[CHAT_KEY][LastSaveOf(id)].entry)

(* C15: the read-modify-write of a local collection runs with no other       *)
(* adapter operation between its read and its write, so with several Save    *)
(* calls in flight at once no saved record is lost from its local collection *)
(* through the write of another call (the retention cap aside).              *)
C15_LocalWritesAreAtomic ==
  /\ NoLocalWriteLost
  /\ Len(savedLog[ANALYSIS_KEY]) + Len(savedLog[CHAT_KEY]) + Len(savedLog[TOOLS_KEY])
       + Cardinality(pending) = nSaves

\* a call has finished while a call of the same kind issued before it is
\* still waiting, and a third record is already in the slot
C15_Witness ==
  /\ last.op = "resume"
  /\ \E p \in pending : p.coll = last.coll /\ p.call < last.result.n
  /\ Len(Stored(KeyOf(last.coll))) >= 2

\* a part with non-blank text or with an image
HasContent(part) ==
  \/ "text" \in DOMAIN part.f /\ part.f["text"].t = "string"
       /\ part.f["text"].s \notin {"", " ", "  "}
  \/ "inlineData" \in DOMAIN part.f /\ part.f["inlineData"].t = "object"

\* the n-th smallest member of a set of positions
Nth(positions, n) ==
  CHOOSE i \in positions : Cardinality({j \in positions : j < i}) = n - 1

(* C17: the history sendChatMessage passes to the model is the input with    *)
(* the parts that have neither non-blank text nor an image removed, the      *)
(* turns left without a part removed, and the longest prefix of non-user     *)
(* turns removed, and nothing else changed: it is empty or starts with a     *)
(* user turn, has no turn without parts, keeps the order of the turns and    *)
(* keeps consecutive turns of one role.                                      *)
C17_HistoryNormalised ==
  chat.sent # Null
  => LET h == chat.history.e
         r == chat.sent.e
         PartsOf(i) == h[i].f["parts"].e
         Content(i) == {j \in DOMAIN PartsOf(i) : HasContent(PartsOf(i)[j])}
         filled == {i \in DOMAIN h : Content(i) # {}}
         users == {i \in filled : h[i].f["role"] = Str("user")}
         kept == {i \in filled : \E u \in users : u <= i}
     IN /\ Len(r) = Cardinality(kept)
        /\ \A n \in DOMAIN r :
             LET i == Nth(kept, n)
             IN /\ r[n].f["role"] = h[i].f["role"]
                /\ DOMAIN r[n].f = {"role", "parts"}
                /\ Len(r[n].f["parts"].e) = Cardinality(Content(i))
                /\ \A m \in DOMAIN r[n].f["parts"].e :
                     r[n].f["parts"].e[m] = PartsOf(i)[Nth(Content(i), m)]
        /\ r = <<>> \/ r[1].f["role"] = Str("user")
        /\ \A n \in DOMAIN r : r[n].f["parts"].e # <<>>

\* a leading model turn was dropped, a part without content was removed, and
\* two user turns in a row were both kept
C17_Witness ==
  /\ chat.sent # Null
  /\ Len(chat.history.e) = 3
  /\ chat.history.e[1].f["role"] = Str("model")
  /\ HasParts(chat.history.e[1])
  /\ Len(chat.sent.e) = 2
  /\ chat.sent.e[1].f["role"] = Str("user")
  /\ chat.sent.e[2].f["role"] = Str("user")
  /\ Len(chat.sent.e[2].f["parts"].e) < Len(chat.history.e[3].f["parts"].e)

\* the step is a timeout firing: it is the only step of the view that saves
TimerFired == nSaves' = nSaves + 1

(* C14: within one mounted chat view at most one autosave timer is pending   *)
(* at any time, and every saveChatSession call carries the message list that *)
(* is current when its timer fires; a list superseded before its timer fired *)
(* is never passed to saveChatSession.                                       *)
C14_TimerCarriesCurrentMessages ==
  [][/\ Cardinality(chat'.timers) <= 1
     /\ TimerFired => Get(last'.arg, "messages") = Arr(chat.messages)]_vars

(* C14, amended: at most one autosave timer is pending at any time, the      *)
(* effect that runs after a change of the message list cancelling the        *)
(* pending one; a timer that fires passes the message list of the latest     *)
(* effect run, which is the current list unless a committed change still     *)
(* waits for its effect, and then it is the list from before that change.    *)
C14_TimerCarriesRenderedMessages ==
  [][/\ Cardinality(chat'.timers) <= 1
     /\ TimerFired
        => /\ chat.rendered <= Len(chat.messages)
           /\ Get(last'.arg, "messages") = Arr(SubSeq(chat.messages, 1, chat.rendered))
           /\ Get(last'.arg, "id") = Str(chat.sessionId)
           /\ ~chat.effectDue => Get(last'.arg, "messages") = Arr(chat.messages)]_vars

\* the reply changed the list before the first timer fired: that timer was
\* cancelled without a save, and the second timer is pending with the reply
C14_Witness ==
  /\ chat.mounted
  /\ nSaves = 0
  /\ chat.nextTimer = 3
  /\ Cardinality(chat.timers) = 1
  /\ \A t \in chat.timers : t.id = 2 /\ Get(t.session, "messages") = Arr(chat.messages)
  /\ Len(chat.messages) = 3

\* a save of the session with at least n messages has happened
SavedUpTo(sessionId, n) ==
  \E j \in DOMAIN savedLog[CHAT_KEY] :
    /\ Get(savedLog[CHAT_KEY][j].entry, "id") = Str(sessionId)
    /\ Len(Get(savedLog[CHAT_KEY][j].entry, "messages").e) >= n

(* C16: after every change that leaves the chat with more than one message,  *)
(* a saveChatSession call for the session carrying that state or a later one *)
(* eventually happens, also when the user leaves the chat view before the    *)
(* debounce interval has elapsed.                                            *)
C16_EveryChangeIsSaved ==
  \A k \in 1 .. MaxMounts, n \in 2 .. MaxMessages :
    (chat.sessionId = Uuid(k) /\ Len(chat.messages) >= n) ~> SavedUpTo(Uuid(k), n)

\* the response carries no grounding citations: the list is missing or empty
NoCitations(response) == response.chunks = Undef \/ response.chunks = Arr(<<>>)

(* C18: when the response to an analysis carries no grounding citations (the *)
(* citation list is missing or empty), the result analyzeProductImage        *)
(* returns has no searchLinks key at all.                                    *)
C18_NoCitationsNoSearchLinks ==
  (home.outcome = "returned" /\ NoCitations(home.response))
    => "searchLinks" \notin DOMAIN SpreadOf(home.data)

\* every analysis record handed to saveToHistory so far
AnalysesSaved == savedLog[ANALYSIS_KEY]

\* every analysis record in the local slot or in a cloud collection
AnalysesStored ==
  {Stored(ANALYSIS_KEY)[i] : i \in DOMAIN Stored(ANALYSIS_KEY)}
  \cup UNION {{cloud[u]["analyses"][i] : i \in DOMAIN cloud[u]["analyses"]} : u \in Users}

\* a non-empty id and a timestamp
Identified(record) ==
  /\ Get(record, "id").t = "string" /\ Get(record, "id").s # ""
  /\ Get(record, "timestamp").t = "number" /\ Get(record, "timestamp").n > 0

ResponseFails(response) ==
  \/ response.transport # "ok"
  \/ ~Truthy(response.text)
  \/ ~JsonParse(response.text.s).ok

\* the step in which the pending analysis settles
Settled == home.outcome = "waiting" /\ home'.outcome # "waiting"

(* C20: when the model returns no text body, or the transport or the JSON    *)
(* parse fails, analyzeProductImage raises and returns no result, and        *)
(* handleAnalyze then persists nothing (cloud and local history unchanged),  *)
(* shows an error and resets its loading flag.                               *)
C20_FailedAnalysisPersistsNothing ==
  [][(Settled /\ ResponseFails(home'.response))
       => /\ home'.outcome = "raised"
          /\ home'.data = Null
          /\ home'.result = Null
          /\ cloud' = cloud
          /\ localStorage' = localStorage
          /\ Truthy(home'.error)
          /\ ~home'.loading]_vars

\* an analysis is stored, locally and in the cloud, and the next one failed
\* on a text that is not JSON
C20_Witness ==
  /\ home.outcome = "raised"
  /\ home.response.text = Str(BrokenText)
  /\ Stored(ANALYSIS_KEY) # <<>>
  /\ \E u \in Users : DOMAIN cloud[u]["analyses"] # {}
  /\ Truthy(home.error)
  /\ ~home.loading

\* the parts of a candidate, none when it has no content or no part list
PartsIn(candidate) ==
  LET parts == Get(Get(candidate, "content"), "parts")
  IN IF parts.t = "array" THEN parts.e ELSE <<>>

\* the candidates of a response, none when the list is missing
CandidatesIn(response) ==
  IF response.candidates.t = "array" THEN response.candidates.e ELSE <<>>

\* the image parts of a response: <<candidate, part>> positions
ImagesIn(response) ==
  {<<c, i>> \in (1 .. MaxCandidates + 1) \X (1 .. MaxParts + 1) :
     /\ c \in DOMAIN CandidatesIn(response)
     /\ i \in DOMAIN PartsIn(CandidatesIn(response)[c])
     /\ CarriesImage(PartsIn(CandidatesIn(response)[c])[i])}

\* the first of them, by candidate and then by part
FirstOf(positions) ==
  CHOOSE p \in positions :
    \A q \in positions : p[1] < q[1] \/ (p[1] = q[1] /\ p[2] <= q[2])

(* C21: for every response with no inline image part in any candidate (no    *)
(* candidates, a candidate without content, an empty part list)              *)
(* generateCustomImage returns null and does not raise; when some part of    *)
(* the response carries inline image data it returns the first such part as  *)
(* a data URI.                                                               *)
C21_NoImageReturnsNull ==
  (last.op = "generateCustomImage" /\ last.arg.transport = "ok")
    => LET images == ImagesIn(last.arg)
       IN IF images = {}
          THEN ~last.raised /\ last.result = Null
          ELSE LET p == FirstOf(images)
               IN /\ ~last.raised
                  /\ last.result = Str(DataUri(PartsIn(CandidatesIn(last.arg)[p[1]])[p[2]]))

\* callback i is called once more in this step, with `user`
CalledWith(i, user) == identity'.subs[i].got = Append(identity.subs[i].got, user)

\* callback i subscribes in this step
Subscribes(i) ==
  identity.subs[i].status = "none" /\ identity'.subs[i].status = "active"

SignInOps == {"signInWithGoogle", "registerWithEmail", "loginWithEmail"}

(* C23: every callback registered through subscribeToAuthChanges and not yet *)
(* unsubscribed is called on every later change of the current user (a       *)
(* substitute-path sign-in, a substitute-path sign-out, a change of the      *)
(* hosted session), also when other callbacks subscribed or unsubscribed in  *)
(* between.                                                                  *)
C23_ActiveSubscriberIsCalled ==
  [][\A i \in Subscribers :
       identity.subs[i].status = "active"
         => /\ (last'.op \in SignInOps /\ last'.result = Str(MOCK_USER))
                 => CalledWith(i, MOCK_USER)
            /\ (last'.op = "logout" /\ last'.substitute) => CalledWith(i, NoUser)
            /\ currentUser' # currentUser => CalledWith(i, currentUser')]_vars

(* C24: after the unsubscribe function of a callback has been called, no     *)
(* later operation calls that callback again, on the hosted path and on the  *)
(* substitute path.                                                          *)
C24_StoppedSubscriberIsSilent ==
  [][\A i \in Subscribers :
       identity.subs[i].status = "stopped"
         => identity'.subs[i].got = identity.subs[i].got]_vars

\* the hosted backend is unusable or the demo flag is set
Unusable == ~authHandle \/ localStorage[DEMO_KEY] = Str("true")

\* the operations that have a substitute path
SubstituteOps == SignInOps \cup {"resetPassword", "logout"}

(* C25: each of signInWithGoogle, registerWithEmail, loginWithEmail,         *)
(* resetPassword and logout takes the substitute path exactly when the       *)
(* hosted backend is unusable or the demo flag is set, and calls no hosted   *)
(* function on it; every operation that takes it leaves the demo flag set    *)
(* and yields the placeholder identity.                                      *)
C25_SubstitutePathSetsFlag ==
  [][last'.op \in SubstituteOps
       => /\ last'.substitute <=> Unusable
          /\ last'.substitute
               => /\ last'.called = {}
                  /\ localStorage'[DEMO_KEY] = Str("true")
                  /\ last'.result = Str(MOCK_USER)]_vars

(* C25, amended: the five operations take the substitute path exactly when   *)
(* the hosted backend is unusable or the demo flag is set, and call no       *)
(* hosted function on it; on it the three sign-in operations set the flag,   *)
(* call the observer with the placeholder user and return it, resetPassword  *)
(* changes nothing and returns nothing, and logout removes the flag, calls   *)
(* the observer with null and returns nothing.                               *)
C25_SubstitutePathByOperation ==
  [][last'.op \in SubstituteOps
       => /\ last'.substitute <=> Unusable
          /\ last'.substitute
               => /\ last'.called = {}
                  /\ ~last'.raised
                  /\ currentUser' = currentUser
                  /\ last'.op \in SignInOps
                       => /\ localStorage'[DEMO_KEY] = Str("true")
                          /\ last'.result = Str(MOCK_USER)
                          /\ identity.mockAuthObserver # 0
                               => CalledWith(identity.mockAuthObserver, MOCK_USER)
                  /\ last'.op = "resetPassword"
                       => /\ localStorage' = localStorage
                          /\ identity' = identity
                          /\ last'.result = Undef
                  /\ last'.op = "logout"
                       => /\ localStorage'[DEMO_KEY] = Null
                          /\ last'.result = Undef
                          /\ identity.mockAuthObserver # 0
                               => CalledWith(identity.mockAuthObserver, NoUser)]_vars

\* a sign-out on the substitute path: the flag is gone and the callback that
\* had been called with the placeholder user was called with null
C25_Witness ==
  /\ last.op = "logout"
  /\ last.substitute
  /\ localStorage[DEMO_KEY] = Null
  /\ \E i \in Subscribers :
       /\ Len(identity.subs[i].got) >= 2
       /\ identity.subs[i].got[Len(identity.subs[i].got)] = NoUser
       /\ identity.subs[i].got[Len(identity.subs[i].got) - 1] = MOCK_USER

\* the step is a signInWithGoogle whose popup failed
PopupFailed ==
  /\ last'.op = "signInWithGoogle"
  /\ "signInWithPopup" \in last'.called
  /\ last'.arg # Null

(* C26: when the hosted Google sign-in fails with unauthorized-domain,       *)
(* operation-not-allowed or api-key-not-valid, signInWithGoogle does not     *)
(* raise: it sets the demo flag, calls the observer with the placeholder     *)
(* user and returns that user; with any other failure it raises and leaves   *)
(* the demo flag and the observed user unchanged.                            *)
C26_GoogleFallsBackToDemo ==
  [][PopupFailed
       => IF last'.arg \in {Str("auth/unauthorized-domain"),
                            Str("auth/operation-not-allowed"),
                            Str("auth/api-key-not-valid")}
          THEN /\ ~last'.raised
               /\ last'.result = Str(MOCK_USER)
               /\ localStorage'[DEMO_KEY] = Str("true")
               /\ identity.mockAuthObserver # 0
                    => CalledWith(identity.mockAuthObserver, MOCK_USER)
          ELSE /\ last'.raised
               /\ last'.result = Undef
               /\ localStorage' = localStorage
               /\ identity' = identity
               /\ currentUser' = currentUser]_vars

\* the popup failed on an invalid API key: the flag is set and the callback
\* that subscribed on the hosted path was called with the placeholder user
C26_Witness ==
  /\ last.op = "signInWithGoogle"
  /\ last.arg = Str("auth/api-key-not-valid")
  /\ localStorage[DEMO_KEY] = Str("true")
  /\ identity.mockAuthObserver # 0
  /\ identity.subs[identity.mockAuthObserver].path = "hosted"
  /\ identity.subs[identity.mockAuthObserver].got = <<NoUser, MOCK_USER>>

\* a createUserDocument run starts in this step
RunStarts == \E run \in profiles'.runs \ profiles.runs : run.phase = "getDoc"

(* C27: the user profile document is created only on first sight, with       *)
(* initials derived from the display name; once it exists, every later       *)
(* createUserDocument run (from a sign-in or from the auth-state listener,   *)
(* two runs overlapping included) changes only the last-login timestamp;     *)
(* while offline or in demo mode createUserDocument reads and writes nothing.*)
C27_ProfileCreatedOnce ==
  [][/\ \A u \in Users :
          /\ (profiles.docs[u] = Null /\ profiles'.docs[u] # Null)
               => /\ profiles'.docs[u].uid = u
                  /\ profiles'.docs[u].initials = (IF u = "u1" THEN "AL" ELSE "U")
          /\ profiles.docs[u] # Null
               => profiles'.docs[u] =
                    [profiles.docs[u] EXCEPT !.lastLogin = profiles'.docs[u].lastLogin]
     /\ RunStarts
          => profiles.online /\ db /\ localStorage[DEMO_KEY] # Str("true")]_vars

\* true of two lists when the first is a beginning of the second
IsPrefix(old, new) ==
  /\ Len(old) <= Len(new)
  /\ SubSeq(new, 1, Len(old)) = old

\* C28: as long as a chat view stays open, every step leaves its earlier
\* message list as the beginning of its new one: messages are appended at the
\* end and never removed, replaced or reordered, also by a reply or an error
\* message that arrives after other state updates.
C28_MessagesOnlyAppended ==
  [][(chat.mounted /\ chat'.mounted) => IsPrefix(chat.messages, chat'.messages)]_vars

\* an error text and then an answer have arrived, each after the input was
\* changed again
C28_Witness ==
  /\ chat.mounted
  /\ Len(chat.messages) = 5
  /\ chat.messages[2] = Message("2", "user", "q")
  /\ chat.messages[3] =
       Message("3", "model", "Sorry, I encountered an error checking that for you.")
  /\ chat.messages[5] = Message("5", "model", "a")
  /\ chat.input = " "
  /\ chat.attachedImage

\* a step in which sendChatMessage is called
RequestStarts == chat'.inFlight > chat.inFlight

\* C29: at most one sendChatMessage call of a chat view is outstanding, and
\* the view is loading while it is; a call starts only when none is
\* outstanding and the input has text or an image is attached, and its current
\* turn has at least one part.
C29_OneRequestAtATime ==
  [][/\ chat'.inFlight <= 1
     /\ chat'.inFlight > 0 => chat'.isLoading
     /\ RequestStarts =>
          /\ chat.inFlight = 0
          /\ chat.input \notin {"", " "} \/ chat.attachedImage
          /\ Len(chat'.request.e) >= 1]_vars

\* an image sent without text is outstanding, and text was dictated meanwhile
C29_Witness ==
  /\ chat.mounted
  /\ chat.inFlight = 1
  /\ chat.isLoading
  /\ Len(chat.request.e) = 2
  /\ chat.request.e[1] = Obj([text |-> Str("Analyze this image")])
  /\ chat.input = "q"

\* after the welcome message user and model turns alternate
Alternates(messages) ==
  \A i \in DOMAIN messages :
    Get(messages[i], "role") = Str(IF i % 2 = 1 THEN "model" ELSE "user")

\* the list of the view alternates, and the view is loading exactly while
\* its last message is a user message
TurnsAlternate ==
  /\ Alternates(chat.messages)
  /\ chat.mounted => (chat.isLoading <=> Len(chat.messages) % 2 = 0)

\* the open view of session k waits for an answer
Waiting(k) == chat.mounted /\ chat.sessionId = Uuid(k) /\ chat.isLoading

\* the open view of session k waits for nothing
AtRest(k) == chat.mounted /\ chat.sessionId = Uuid(k) /\ ~chat.isLoading

\* a step that ends the waiting of an open view appends one model message
OneMessagePerTurn ==
  /\ (chat.mounted /\ ~chat.isLoading /\ chat'.isLoading)
       => /\ Len(chat'.messages) = Len(chat.messages) + 1
          /\ Get(chat'.messages[Len(chat'.messages)], "role") = Str("user")
  /\ (chat.mounted /\ chat.isLoading /\ chat'.mounted /\ ~chat'.isLoading)
       => /\ Len(chat'.messages) = Len(chat.messages) + 1
          /\ Get(chat'.messages[Len(chat'.messages)], "role") = Str("model")
          /\ Get(chat'.messages[Len(chat'.messages)], "text") \in
               {Str("a"), Str("I couldn't generate a response. Please try again."),
                Str("Sorry, I encountered an error checking that for you.")}

(* C30 as stated: every accepted send appends one user message and is         *)
(* eventually followed by one appended model message, after which the loading *)
(* flag is false; the message list alternates user and model turns.           *)
C30_SendIsAnswered ==
  /\ []TurnsAlternate
  /\ [][OneMessagePerTurn]_vars
  /\ \A k \in 1 .. MaxMounts : Waiting(k) ~> AtRest(k)

(* C30: every accepted send appends one user message and, unless the view is  *)
(* left before the call settles, is eventually followed by one appended model *)
(* message (the answer, the fallback text or the error text), after which the *)
(* loading flag is false; the message list of the view alternates user and    *)
(* model turns after the welcome message.                                     *)
C30_SendIsAnsweredWhileOpen ==
  /\ []TurnsAlternate
  /\ [][OneMessagePerTurn]_vars
  /\ (chat.mounted /\ chat.isLoading) ~> ~(chat.mounted /\ chat.isLoading)

\* an image sent alone was answered with no text, so the fallback text
\* followed; then a text was sent, the call failed and the error text followed
C30_Witness ==
  /\ chat.mounted
  /\ ~chat.isLoading
  /\ Len(chat.messages) = 5
  /\ chat.messages[2] = Message("2", "user", "Analyze this image")
  /\ chat.messages[3] =
       Message("3", "model", "I couldn't generate a response. Please try again.")
  /\ chat.messages[4] = Message("4", "user", "q")
  /\ chat.messages[5] =
       Message("5", "model", "Sorry, I encountered an error checking that for you.")

====
